---- MODULE Spec2Model ----
(***************************************************************************)
(* Background-job orchestration and result state machine of the image      *)
(* dataset manager: the in-memory job registry (TaskManager), the export   *)
(* job (ArchiveService.run_export_task), the result store adapter          *)
(* (ResultService over the results table) and the k-means request flow.    *)
(***************************************************************************)
EXTENDS Integers, Sequences, FiniteSets, TLC

\* ------------------------------------------------------------------ bounds
MaxTasks == 1          \* job ids the registry ever issues
MaxId == 2             \* highest primary key the results table hands out
MaxTime == 1           \* last value of the store clock (second resolution)
MaxSessions == 2       \* store sessions that run create_pending_result at the same time
MaxJobs == 1           \* k-means background jobs ever scheduled
MaxNotes == 2          \* notifications the registry ever builds
MaxSubs == 2           \* callbacks in one job's subscriber list
MaxClock == 2          \* last value of the event-loop clock
MaxDatasets == 2       \* highest primary key the datasets table hands out
MaxImages == 2         \* highest primary key the images table hands out
MaxExports == 2        \* export jobs ever started for the datasets of the library
MaxImports == 1        \* import_dataset calls ever started

\* ------------------------------------------------------------- value sets
TaskIds == 1..MaxTasks
NoTask == 0            \* an id that was never issued

QUEUED == "queued"
PROCESSING == "processing"
COMPLETED == "completed"
FAILED == "failed"
CANCELLED == "cancelled"
TaskStatus == {QUEUED, PROCESSING, COMPLETED, FAILED, CANCELLED}
Terminal == {COMPLETED, FAILED, CANCELLED}

NoResult == "None"
NoError == "None"
ProgressInputs == {50}
MessageInputs == {"halfway"}
ResultInputs == {"payload"}
ErrorInputs == {"boom"}
Callbacks == {"cb1", "cb2"}
MaxAgeInputs == {0, 1}

VARIABLES
    tasks,              \* TaskManager.tasks: task_id -> Task
    nextTaskId,         \* ids already issued are 1..nextTaskId-1 (uuid4: never reissued)
    exportPc,           \* position of each scheduled run_export_task coroutine
    tempDirs,           \* task ids whose temp_export_<id> directory exists
    cancelledInFlight,  \* ids on which cancel_task returned True while PROCESSING with a running unit
    results,            \* the results table: id -> row
    files,              \* result artifacts present on disk
    now,                \* the store clock behind func.now()
    returned,           \* id -> the call that created and handed back that row, with its params
    sessions,           \* store sessions: those running create_pending_result step by step,
                        \* and those of the requests and background jobs of an endpoint
    kmeans,             \* scheduled run_kmeans_task background jobs
    clock,              \* asyncio.get_event_loop().time()
    subscribers,        \* TaskManager.subscribers: task_id -> list of callbacks
    deliveries,         \* notify_subscribers coroutines suspended inside an awaited callback
    received,           \* callback -> the latest-built notification it was ever called
                        \* with, by its position in the order of building (0: none)
    lastCall,           \* the most recent call and what it returned
    datasets,           \* the datasets table: the ids of its rows
    images,             \* the images table: id -> row
    archives,           \* the files under exports/: dataset id -> what was last written
                        \* there, and by which jobs
    exporting,          \* task id -> the arguments and reads of its run_export_task
    imports,            \* import_dataset calls in progress
    importDirs          \* import ids whose temp_import_<uuid> directory exists

quietVars == <<clock, subscribers, deliveries, received>>
registryVars == <<tasks, nextTaskId, exportPc, tempDirs, cancelledInFlight, quietVars>>
storeVars == <<results, files, now, returned>>
libraryVars == <<datasets, images, archives, exporting, imports, importDirs>>
vars == <<tasks, nextTaskId, exportPc, tempDirs, cancelledInFlight,
          results, files, now, returned, sessions, kmeans,
          clock, subscribers, deliveries, received, lastCall, libraryVars>>

Call(op, id, ret) == [op |-> op, id |-> id, ret |-> ret, arg |-> "None"]
CallWith(op, id, ret, arg) == [op |-> op, id |-> id, ret |-> ret, arg |-> arg]

\* what a call reports about its computation: whether one ran, and on which thread
Computed(thread) == [computed |-> TRUE, thread |-> thread]
NotComputed == [computed |-> FALSE, thread |-> "none"]

\* ------------------------------------------------------------ job registry
\* dataclass Task: defaults of a freshly constructed task
Task(task_type) ==
    [task_type |-> task_type, status |-> QUEUED, progress |-> 0, message |-> "",
     result |-> NoResult, error |-> NoError, created_at |-> clock]

Max(S) == CHOOSE m \in S : \A x \in S : x <= m

\* dict[key] = value
Put(f, key, value) == [i \in DOMAIN f \cup {key} |-> IF i = key THEN value ELSE f[i]]

\* TaskManager.add_task
add_task(t, id, task) == Put(t, id, task)

\* TaskManager.get_task: the id is registered
Known(id) == id \in DOMAIN tasks

\* TaskManager.remove_task on the table
remove_from(t, id) == [i \in DOMAIN t \ {id} |-> t[i]]

Init ==
    /\ tasks = <<>>
    /\ nextTaskId = 1
    /\ exportPc = <<>>
    /\ tempDirs = {}
    /\ cancelledInFlight = {}
    /\ results = <<>>
    /\ files = {}
    /\ now = 0
    /\ returned = <<>>
    /\ sessions = <<>>
    /\ kmeans = <<>>
    /\ clock = 0
    /\ subscribers = <<>>
    /\ deliveries = <<>>
    /\ received = [cb \in Callbacks |-> 0]
    /\ lastCall = Call("init", NoTask, "None")
    /\ datasets = {}
    /\ images = <<>>
    /\ archives = <<>>
    /\ exporting = <<>>
    /\ imports = <<>>
    /\ importDirs = {}

\* ------------------------------------------------------------ notifications
\* the dict built by notify_subscribers: has_result and error only when truthy
Notification(task_id, task) ==
    LET base == [task_id |-> task_id, status |-> task.status, progress |-> task.progress,
                 message |-> task.message, completed |-> task.status \in Terminal]
        with_result == IF task.result # NoResult THEN [has_result |-> TRUE] @@ base ELSE base
    IN IF task.error # NoError THEN [error |-> task.error] @@ with_result ELSE with_result

\* position of a notification in the order in which the registry built them
NextSeq == Max({received[cb] : cb \in Callbacks}) + 1

\* notify_subscribers(id) gets past its two early returns
Notifies(id) == id \in DOMAIN subscribers /\ id \in DOMAIN tasks'

\* the callback notify_subscribers calls first, and what it is called with
Called(id) ==
    IF Notifies(id)
       THEN [callback |-> subscribers[id][1], seq |-> NextSeq,
             note |-> Notification(id, tasks'[id])]
       ELSE "None"

\* notify_subscribers up to its first suspension: nothing without a subscriber list or a
\* task; otherwise the notification is built from the task as it is now and the first
\* callback is called, the coroutine staying suspended inside that awaited callback
notify_subscribers(id) ==
    IF Notifies(id)
       THEN /\ NextSeq <= MaxNotes
            /\ received' = [received EXCEPT ![subscribers[id][1]] = NextSeq]
            /\ deliveries' = Put(deliveries, NextSeq,
                                 [id |-> id, note |-> Notification(id, tasks'[id]), idx |-> 2,
                                  live |-> TRUE, detached |-> <<>>])
       ELSE UNCHANGED <<deliveries, received>>

\* the list object a suspended `for callback in self.subscribers[task_id]` iterates
Iterated(d) == IF d.live THEN subscribers[d.id] ELSE d.detached

\* notify_subscribers resumed: the awaited callback returned (or raised, which is logged);
\* the loop calls the next callback of the list or ends
Deliver(n) ==
    /\ UNCHANGED libraryVars
    /\ n \in DOMAIN deliveries
    /\ LET d == deliveries[n]
           list == Iterated(d)
       IN IF d.idx > Len(list)
             THEN /\ deliveries' = [i \in DOMAIN deliveries \ {n} |-> deliveries[i]]
                  /\ UNCHANGED received
                  /\ lastCall' = Call("notify_subscribers", d.id, "returned")
             ELSE /\ received' = [received EXCEPT ![list[d.idx]] = Max({@, n})]
                  /\ deliveries' = [deliveries EXCEPT ![n].idx = d.idx + 1]
                  /\ lastCall' = CallWith("notify_subscribers", d.id, "awaiting",
                                          [callback |-> list[d.idx], seq |-> n, note |-> d.note])
    /\ UNCHANGED <<tasks, nextTaskId, exportPc, tempDirs, cancelledInFlight>>
    /\ UNCHANGED <<clock, subscribers, storeVars, sessions, kmeans>>

\* how an awaited callback hands control back to the loop: it returns, or it raises an
\* Exception, which the loop's except clause catches and logs
Outcomes == {"returned", "raised"}

\* the loop letting the exception of a callback out: the notification goes no further
Resumed_propagating(n, outcome) ==
    /\ UNCHANGED libraryVars
    /\ n \in DOMAIN deliveries
    /\ LET d == deliveries[n]
           list == Iterated(d)
       IN IF outcome = "raised"
             THEN /\ deliveries' = [i \in DOMAIN deliveries \ {n} |-> deliveries[i]]
                  /\ UNCHANGED received
                  /\ lastCall' = CallWith("notify_subscribers", d.id, "raised",
                                          [seq |-> n, after |-> outcome])
          ELSE IF d.idx > Len(list)
             THEN /\ deliveries' = [i \in DOMAIN deliveries \ {n} |-> deliveries[i]]
                  /\ UNCHANGED received
                  /\ lastCall' = CallWith("notify_subscribers", d.id, "returned",
                                          [seq |-> n, after |-> outcome])
             ELSE /\ received' = [received EXCEPT ![list[d.idx]] = Max({@, n})]
                  /\ deliveries' = [deliveries EXCEPT ![n].idx = d.idx + 1]
                  /\ lastCall' = CallWith("notify_subscribers", d.id, "awaiting",
                                          [callback |-> list[d.idx], seq |-> n, note |-> d.note,
                                           after |-> outcome])
    /\ UNCHANGED <<tasks, nextTaskId, exportPc, tempDirs, cancelledInFlight>>
    /\ UNCHANGED <<clock, subscribers, storeVars, sessions, kmeans>>

\* notify_subscribers resumed, with the outcome of the callback it was suspended in: the
\* try/except around `await callback(notification)` makes both outcomes go on with the loop
Resumed(n, outcome) ==
    /\ UNCHANGED libraryVars
    /\ n \in DOMAIN deliveries
    /\ LET d == deliveries[n]
           list == Iterated(d)
       IN IF d.idx > Len(list)
             THEN /\ deliveries' = [i \in DOMAIN deliveries \ {n} |-> deliveries[i]]
                  /\ UNCHANGED received
                  /\ lastCall' = CallWith("notify_subscribers", d.id, "returned",
                                          [seq |-> n, after |-> outcome])
             ELSE /\ received' = [received EXCEPT ![list[d.idx]] = Max({@, n})]
                  /\ deliveries' = [deliveries EXCEPT ![n].idx = d.idx + 1]
                  /\ lastCall' = CallWith("notify_subscribers", d.id, "awaiting",
                                          [callback |-> list[d.idx], seq |-> n, note |-> d.note,
                                           after |-> outcome])
    /\ UNCHANGED <<tasks, nextTaskId, exportPc, tempDirs, cancelledInFlight>>
    /\ UNCHANGED <<clock, subscribers, storeVars, sessions, kmeans>>

\* suspended loops over the list of id keep the list object once the dict entry is deleted
Detach(ds, id, list) ==
    [n \in DOMAIN ds |->
        IF ds[n].id = id /\ ds[n].live
           THEN [ds[n] EXCEPT !.live = FALSE, !.detached = list]
           ELSE ds[n]]

\* TaskManager.subscribe_to_task
subscribe_to_task(id, callback) ==
    /\ UNCHANGED libraryVars
    /\ id \in DOMAIN subscribers => Len(subscribers[id]) < MaxSubs
    /\ subscribers' = IF id \in DOMAIN subscribers
                         THEN [subscribers EXCEPT ![id] = Append(@, callback)]
                         ELSE Put(subscribers, id, <<callback>>)
    /\ lastCall' = CallWith("subscribe_to_task", id, "None", [callback |-> callback])
    /\ UNCHANGED <<tasks, nextTaskId, exportPc, tempDirs, cancelledInFlight>>
    /\ UNCHANGED <<clock, deliveries, received, storeVars, sessions, kmeans>>

\* list.remove(callback): the first occurrence goes
Without(list, callback) ==
    LET at == CHOOSE i \in DOMAIN list :
                 list[i] = callback /\ \A j \in 1..(i - 1) : list[j] # callback
    IN [i \in 1..(Len(list) - 1) |-> IF i < at THEN list[i] ELSE list[i + 1]]

\* TaskManager.unsubscribe_from_task
unsubscribe_from_task(id, callback) ==
    /\ UNCHANGED libraryVars
    /\ IF id \in DOMAIN subscribers /\ \E i \in DOMAIN subscribers[id] : subscribers[id][i] = callback
          THEN LET rest == Without(subscribers[id], callback)
               IN IF rest = <<>>
                     THEN /\ subscribers' = [i \in DOMAIN subscribers \ {id} |-> subscribers[i]]
                          /\ deliveries' = Detach(deliveries, id, <<>>)
                     ELSE /\ subscribers' = [subscribers EXCEPT ![id] = rest]
                          /\ UNCHANGED deliveries
          ELSE UNCHANGED <<subscribers, deliveries>>
    /\ lastCall' = CallWith("unsubscribe_from_task", id, "None", [callback |-> callback])
    /\ UNCHANGED <<tasks, nextTaskId, exportPc, tempDirs, cancelledInFlight>>
    /\ UNCHANGED <<clock, received, storeVars, sessions, kmeans>>

\* TaskService.create_task: uuid4 id, Task(...), add_task
TaskService_create_task ==
    /\ UNCHANGED libraryVars
    /\ nextTaskId <= MaxTasks
    /\ tasks' = add_task(tasks, nextTaskId, Task("generic"))
    /\ nextTaskId' = nextTaskId + 1
    /\ lastCall' = Call("TaskService.create_task", nextTaskId, "id")
    /\ UNCHANGED <<exportPc, tempDirs, cancelledInFlight>>
    /\ UNCHANGED <<quietVars, storeVars, sessions, kmeans>>

\* TaskManager.update_task_progress
update_task_progress(id, progress, message) ==
    /\ UNCHANGED libraryVars
    /\ IF Known(id)
          THEN tasks' = [tasks EXCEPT ![id].progress = progress, ![id].message = message]
          ELSE UNCHANGED tasks
    /\ notify_subscribers(id)
    /\ lastCall' = CallWith("update_task_progress", id, "None", Called(id))
    /\ UNCHANGED <<nextTaskId, exportPc, tempDirs, cancelledInFlight>>
    /\ UNCHANGED <<clock, subscribers, storeVars, sessions, kmeans>>

\* complete_task registering a completed job when the id is not in the table
complete_task_registering(id, result) ==
    /\ UNCHANGED libraryVars
    /\ tasks' = IF Known(id)
                   THEN [tasks EXCEPT ![id].status = COMPLETED,
                                      ![id].result = result,
                                      ![id].progress = 100]
                   ELSE Put(tasks, id, [Task("generic") EXCEPT !.status = COMPLETED,
                                                               !.result = result,
                                                               !.progress = 100])
    /\ notify_subscribers(id)
    /\ lastCall' = CallWith("complete_task", id, "None", Called(id))
    /\ UNCHANGED <<nextTaskId, exportPc, tempDirs, cancelledInFlight>>
    /\ UNCHANGED <<clock, subscribers, storeVars, sessions, kmeans>>

\* TaskManager.complete_task
complete_task(id, result) ==
    /\ UNCHANGED libraryVars
    /\ IF Known(id)
          THEN tasks' = [tasks EXCEPT ![id].status = COMPLETED,
                                      ![id].result = result,
                                      ![id].progress = 100]
          ELSE UNCHANGED tasks
    /\ notify_subscribers(id)
    /\ lastCall' = CallWith("complete_task", id, "None", Called(id))
    /\ UNCHANGED <<nextTaskId, exportPc, tempDirs, cancelledInFlight>>
    /\ UNCHANGED <<clock, subscribers, storeVars, sessions, kmeans>>

\* TaskManager.fail_task
fail_task(id, error) ==
    /\ UNCHANGED libraryVars
    /\ IF Known(id)
          THEN tasks' = [tasks EXCEPT ![id].status = FAILED, ![id].error = error]
          ELSE UNCHANGED tasks
    /\ notify_subscribers(id)
    /\ lastCall' = CallWith("fail_task", id, "None", Called(id))
    /\ UNCHANGED <<nextTaskId, exportPc, tempDirs, cancelledInFlight>>
    /\ UNCHANGED <<clock, subscribers, storeVars, sessions, kmeans>>

\* the unit of work of job id is executing on a worker-pool thread
UnitRunning(id) == id \in DOMAIN exportPc /\ exportPc[id] = "zipping"

\* TaskManager.cancel_task (Task.future is never assigned, so there is nothing to abort)
cancel_task(id) ==
    /\ UNCHANGED libraryVars
    /\ IF ~Known(id) \/ tasks[id].status \in {COMPLETED, FAILED}
          THEN /\ UNCHANGED <<tasks, cancelledInFlight, deliveries, received>>
               /\ lastCall' = Call("cancel_task", id, "False")
          ELSE /\ tasks' = [tasks EXCEPT ![id].status = CANCELLED]
               /\ notify_subscribers(id)
               /\ cancelledInFlight' =
                     IF tasks[id].status = PROCESSING /\ UnitRunning(id)
                        THEN cancelledInFlight \cup {id}
                        ELSE cancelledInFlight
               /\ lastCall' = CallWith("cancel_task", id, "True", Called(id))
    /\ UNCHANGED <<nextTaskId, exportPc, tempDirs>>
    /\ UNCHANGED <<clock, subscribers, storeVars, sessions, kmeans>>

\* TaskManager.remove_task
remove_task(id) ==
    /\ UNCHANGED libraryVars
    /\ Known(id)
    /\ tasks' = remove_from(tasks, id)
    /\ cancelledInFlight' = cancelledInFlight \ {id}
    /\ IF id \in DOMAIN subscribers
          THEN /\ subscribers' = [i \in DOMAIN subscribers \ {id} |-> subscribers[i]]
               /\ deliveries' = Detach(deliveries, id, subscribers[id])
          ELSE UNCHANGED <<subscribers, deliveries>>
    /\ lastCall' = Call("remove_task", id, "None")
    /\ UNCHANGED <<nextTaskId, exportPc, tempDirs>>
    /\ UNCHANGED <<clock, received, storeVars, sessions, kmeans>>

\* the event loop's clock moves on by an hour
Advance ==
    /\ UNCHANGED libraryVars
    /\ clock < MaxClock * 3600
    /\ clock' = clock + 3600
    /\ lastCall' = Call("advance", NoTask, "None")
    /\ UNCHANGED <<tasks, nextTaskId, exportPc, tempDirs, cancelledInFlight>>
    /\ UNCHANGED <<subscribers, deliveries, received, storeVars, sessions, kmeans>>

\* cleanup_old_tasks collecting the jobs that have reached the age, not only those past it
tasks_to_remove_at_age(max_age_hours) ==
    {id \in DOMAIN tasks :
        /\ tasks[id].status \in {COMPLETED, FAILED, CANCELLED}
        /\ clock - tasks[id].created_at >= max_age_hours * 3600}

\* the ids cleanup_old_tasks collects in tasks_to_remove
tasks_to_remove(max_age_hours) ==
    {id \in DOMAIN tasks :
        /\ tasks[id].status \in {COMPLETED, FAILED, CANCELLED}
        /\ clock - tasks[id].created_at > max_age_hours * 3600}

\* TaskManager.cleanup_old_tasks: remove_task for every collected id
cleanup_old_tasks(max_age_hours) ==
    /\ UNCHANGED libraryVars
    /\ LET gone == tasks_to_remove(max_age_hours)
       IN /\ tasks' = [id \in DOMAIN tasks \ gone |-> tasks[id]]
          /\ subscribers' = [id \in DOMAIN subscribers \ gone |-> subscribers[id]]
          /\ deliveries' = [n \in DOMAIN deliveries |->
                               IF deliveries[n].id \in gone /\ deliveries[n].live
                                  THEN [deliveries[n] EXCEPT !.live = FALSE,
                                                             !.detached = subscribers[deliveries[n].id]]
                                  ELSE deliveries[n]]
          /\ cancelledInFlight' = cancelledInFlight \ gone
          /\ lastCall' = CallWith("cleanup_old_tasks", NoTask, "None",
                                  [max_age_hours |-> max_age_hours, removed |-> gone,
                                   unsubscribed |-> gone \cap DOMAIN subscribers])
          /\ UNCHANGED <<nextTaskId, exportPc, tempDirs>>
          /\ UNCHANGED <<clock, received, storeVars, sessions, kmeans>>

\* ------------------------------------------------------------- export job
\* TaskManager.create_task as ArchiveService and its tests call it: a QUEUED job under a new id
create_task(t, id, task_type) == add_task(t, id, Task(task_type))

\* TaskManager.update_task as run_export_task calls it: a status change with message, result
\* and error; an unknown id is a no-op and a terminal job ignores the call
update_task(t, id, status, message, result, error) ==
    IF id \notin DOMAIN t THEN t
    ELSE IF t[id].status \in Terminal THEN t
    ELSE [t EXCEPT ![id].status = status,
                   ![id].message = message,
                   ![id].result = IF result = NoResult THEN @ ELSE result,
                   ![id].error = IF error = NoError THEN @ ELSE error]

\* the notification of a TaskManager.update_task call that changed the job
update_task_notifies(id) ==
    IF id \in DOMAIN tasks /\ tasks[id].status \notin Terminal
       THEN notify_subscribers(id)
       ELSE UNCHANGED <<deliveries, received>>

\* start_export registering the job before it has looked the dataset up
start_export_unchecked ==
    /\ UNCHANGED libraryVars
    /\ \E found \in BOOLEAN :
          /\ nextTaskId <= MaxTasks
          /\ tasks' = create_task(tasks, nextTaskId, "dataset_export")
          /\ nextTaskId' = nextTaskId + 1
          /\ IF ~found
                THEN /\ UNCHANGED exportPc
                     /\ lastCall' = Call("start_export", NoTask, "404")
                ELSE /\ exportPc' = Put(exportPc, nextTaskId, "scheduled")
                     /\ lastCall' = Call("start_export", nextTaskId, "queued")
          /\ UNCHANGED <<tempDirs, cancelledInFlight, quietVars, storeVars, sessions, kmeans>>

\* POST /export/{dataset_id}
start_export ==
    /\ UNCHANGED libraryVars
    /\ \E found \in BOOLEAN :
          /\ IF ~found
                THEN /\ UNCHANGED <<tasks, nextTaskId, exportPc>>
                     /\ lastCall' = Call("start_export", NoTask, "404")
                ELSE /\ nextTaskId <= MaxTasks
                     /\ tasks' = create_task(tasks, nextTaskId, "dataset_export")
                     /\ nextTaskId' = nextTaskId + 1
                     /\ exportPc' = Put(exportPc, nextTaskId, "scheduled")
                     /\ lastCall' = Call("start_export", nextTaskId, "queued")
          /\ UNCHANGED <<tempDirs, cancelledInFlight, quietVars, storeVars, sessions, kmeans>>

AtExport(id, pc) == id \in DOMAIN exportPc /\ exportPc[id] = pc

\* run_export_task up to its first await
ExportStart(id) ==
    /\ UNCHANGED libraryVars
    /\ AtExport(id, "scheduled")
    /\ tasks' = update_task(tasks, id, PROCESSING, "Collecting data from DB...", NoResult, NoError)
    /\ exportPc' = [exportPc EXCEPT ![id] = "collecting"]
    /\ update_task_notifies(id)
    /\ lastCall' = Call("run_export_task", id, "collecting")
    /\ UNCHANGED <<nextTaskId, tempDirs, cancelledInFlight>>
    /\ UNCHANGED <<clock, subscribers, storeVars, sessions, kmeans>>

\* run_export_task: the reads, then the hand-over of _create_zip_sync to the worker pool
ExportCollect(id) ==
    /\ UNCHANGED libraryVars
    /\ AtExport(id, "collecting")
    /\ \E found \in BOOLEAN :
          IF found
             THEN /\ tasks' = update_task(tasks, id, PROCESSING, "Compressing images...",
                                          NoResult, NoError)
                  /\ exportPc' = [exportPc EXCEPT ![id] = "zipping"]
                  /\ lastCall' = Call("run_export_task", id, "zipping")
             ELSE /\ tasks' = update_task(tasks, id, FAILED, "", NoResult, "Dataset not found")
                  /\ exportPc' = [exportPc EXCEPT ![id] = "done"]
                  /\ lastCall' = Call("run_export_task", id, "failed")
    /\ update_task_notifies(id)
    /\ UNCHANGED <<nextTaskId, tempDirs, cancelledInFlight>>
    /\ UNCHANGED <<clock, subscribers, storeVars, sessions, kmeans>>

\* _create_zip_sync recording the outcome in the registry from its worker thread
create_zip_sync_completing(id) ==
    /\ UNCHANGED libraryVars
    /\ AtExport(id, "zipping")
    /\ tempDirs' = tempDirs \cup {id}
    /\ exportPc' = [exportPc EXCEPT ![id] = "zipped"]
    /\ tasks' = update_task(tasks, id, COMPLETED, "Export ready", "archive", NoError)
    /\ update_task_notifies(id)
    /\ lastCall' = CallWith("_create_zip_sync", id, "None", Computed("worker pool"))
    /\ UNCHANGED <<nextTaskId, cancelledInFlight>>
    /\ UNCHANGED <<clock, subscribers, storeVars, sessions, kmeans>>

\* _create_zip_sync on a worker thread: it makes the working directory, then returns or raises
create_zip_sync(id) ==
    /\ UNCHANGED libraryVars
    /\ AtExport(id, "zipping")
    /\ \E outcome \in {"zipped", "raised", "raised_early"} :
          /\ tempDirs' = IF outcome = "raised_early" THEN tempDirs ELSE tempDirs \cup {id}
          /\ exportPc' = [exportPc EXCEPT ![id] = IF outcome = "zipped" THEN "zipped" ELSE "zip_failed"]
    /\ lastCall' = CallWith("_create_zip_sync", id, "None", Computed("worker pool"))
    /\ UNCHANGED <<tasks, nextTaskId, cancelledInFlight, quietVars, storeVars, sessions, kmeans>>

\* run_export_task resumed with the archive path: the COMPLETED update, then the finally block
ExportRecord(id) ==
    /\ UNCHANGED libraryVars
    /\ AtExport(id, "zipped")
    /\ tasks' = update_task(tasks, id, COMPLETED, "Export ready", "archive", NoError)
    /\ exportPc' = [exportPc EXCEPT ![id] = IF id \in tempDirs THEN "cleanup" ELSE "done"]
    /\ update_task_notifies(id)
    /\ lastCall' = Call("export_completed_update", id, "None")
    /\ UNCHANGED <<nextTaskId, tempDirs, cancelledInFlight>>
    /\ UNCHANGED <<clock, subscribers, storeVars, sessions, kmeans>>

\* run_export_task resumed with the archive path, and the statement that records the
\* outcome raises: nothing is recorded and the finally block runs
ExportRecordRaised(id) ==
    /\ UNCHANGED libraryVars
    /\ AtExport(id, "zipped")
    /\ exportPc' = [exportPc EXCEPT ![id] = IF id \in tempDirs THEN "record_failed" ELSE "done"]
    /\ tasks' = IF id \in tempDirs THEN tasks
                ELSE update_task(tasks, id, FAILED, "", NoResult, "record error")
    /\ IF id \in tempDirs
          THEN UNCHANGED <<deliveries, received>>
          ELSE update_task_notifies(id)
    /\ lastCall' = Call("run_export_task", id, "raised")
    /\ UNCHANGED <<nextTaskId, tempDirs, cancelledInFlight>>
    /\ UNCHANGED <<clock, subscribers, storeVars, sessions, kmeans>>

\* run_export_task swallowing the worker's exception: the run goes on as after a success
ExportRaised_swallowed(id) ==
    /\ UNCHANGED libraryVars
    /\ AtExport(id, "zip_failed")
    /\ exportPc' = [exportPc EXCEPT ![id] = IF id \in tempDirs THEN "cleanup" ELSE "done"]
    /\ lastCall' = Call("run_export_task", id, "raised")
    /\ UNCHANGED <<tasks, deliveries, received, nextTaskId, tempDirs, cancelledInFlight>>
    /\ UNCHANGED <<clock, subscribers, storeVars, sessions, kmeans>>

\* run_export_task resumed with the worker's exception: the finally block hands rmtree to
\* the pool when the directory exists, otherwise the except clause runs at once
ExportRaised(id) ==
    /\ UNCHANGED libraryVars
    /\ AtExport(id, "zip_failed")
    /\ IF id \in tempDirs
          THEN /\ exportPc' = [exportPc EXCEPT ![id] = "cleanup_failed"]
               /\ UNCHANGED <<tasks, deliveries, received>>
          ELSE /\ exportPc' = [exportPc EXCEPT ![id] = "done"]
               /\ tasks' = update_task(tasks, id, FAILED, "", NoResult, "zip error")
               /\ update_task_notifies(id)
    /\ lastCall' = Call("run_export_task", id, "raised")
    /\ UNCHANGED <<nextTaskId, tempDirs, cancelledInFlight>>
    /\ UNCHANGED <<clock, subscribers, storeVars, sessions, kmeans>>

\* a failed run that skips the removal of its working directory
ExportCleanup_keeping_directory(id) ==
    /\ UNCHANGED libraryVars
    /\ AtExport(id, "cleanup") \/ AtExport(id, "cleanup_failed") \/ AtExport(id, "record_failed")
    /\ tempDirs' = IF exportPc[id] = "cleanup" THEN tempDirs \ {id} ELSE tempDirs
    /\ tasks' = IF exportPc[id] = "cleanup" THEN tasks
                ELSE update_task(tasks, id, FAILED, "", NoResult, "zip error")
    /\ IF exportPc[id] \in {"cleanup_failed", "record_failed"}
          THEN update_task_notifies(id)
          ELSE UNCHANGED <<deliveries, received>>
    /\ exportPc' = [exportPc EXCEPT ![id] = "done"]
    /\ lastCall' = Call("run_export_task", id, "done")
    /\ UNCHANGED <<nextTaskId, cancelledInFlight>>
    /\ UNCHANGED <<clock, subscribers, storeVars, sessions, kmeans>>

\* the awaited shutil.rmtree returns; after a failed run the except clause records FAILED
ExportCleanup(id) ==
    /\ UNCHANGED libraryVars
    /\ AtExport(id, "cleanup") \/ AtExport(id, "cleanup_failed") \/ AtExport(id, "record_failed")
    /\ tempDirs' = tempDirs \ {id}
    /\ tasks' = IF exportPc[id] = "cleanup_failed"
                   THEN update_task(tasks, id, FAILED, "", NoResult, "zip error")
                ELSE IF exportPc[id] = "record_failed"
                   THEN update_task(tasks, id, FAILED, "", NoResult, "record error")
                   ELSE tasks
    /\ IF exportPc[id] \in {"cleanup_failed", "record_failed"}
          THEN update_task_notifies(id)
          ELSE UNCHANGED <<deliveries, received>>
    /\ exportPc' = [exportPc EXCEPT ![id] = "done"]
    /\ lastCall' = Call("run_export_task", id, "done")
    /\ UNCHANGED <<nextTaskId, cancelledInFlight>>
    /\ UNCHANGED <<clock, subscribers, storeVars, sessions, kmeans>>

run_export_task(id) ==
    \/ ExportStart(id)
    \/ ExportCollect(id)
    \/ create_zip_sync(id)
    \/ ExportRecord(id)
    \/ ExportRecordRaised(id)
    \/ ExportRaised(id)
    \/ ExportCleanup(id)

\* ------------------------------------------------------------ result store
Images == {7}
Methods == {"kmeans", "crop"}
ResultPath(image_id) == <<"uploads/results", image_id, "kmeans.jpg">>
Paths == {ResultPath(i) : i \in Images}

ParamsInputs == {[k |-> 3], [k |-> 5, status |-> "stale"]}
DataInputs == {[status |-> "completed", centers |-> <<1, 2, 3>>]}
None == [given |-> FALSE, list |-> <<>>]
Resource(path) == [type |-> "image", key |-> "result_img", path |-> path]
ResourceInputs == {None} \cup {[given |-> TRUE, list |-> <<Resource(p)>>] : p \in Paths}

\* Python's `resources or []`
OrEmpty(resources) == IF resources.given THEN resources.list ELSE <<>>

\* _pack leaving the resources key out when no list was given
_pack_dropping_resources(params, data, resources) ==
    IF resources.given
       THEN [params |-> params, data |-> data, resources |-> resources.list]
       ELSE [params |-> params, data |-> data]

\* ResultService._pack
_pack(params, data, resources) ==
    [params |-> params, data |-> data, resources |-> OrEmpty(resources)]

\* _unpack letting the parameters win over the data
_unpack_params_win(db_json) ==
    IF "params" \in DOMAIN db_json /\ "data" \in DOMAIN db_json
       THEN db_json.params @@ db_json.data
       ELSE db_json

\* ResultService._unpack on a stored JSON object: {**params, **data}, or the flat legacy map
_unpack(db_json) ==
    IF "params" \in DOMAIN db_json /\ "data" \in DOMAIN db_json
       THEN db_json.data @@ db_json.params
       ELSE db_json

\* a Results row; created_at is the server default func.now()
Row(image_id, method, result, at) ==
    [image_id |-> image_id, name_method |-> method, result |-> result, created_at |-> at]

\* the INTEGER PRIMARY KEY the table assigns to an inserted row
NewId(rs) == Max(DOMAIN rs \cup {0}) + 1

\* select(Results).where(name_method == method, image_id == image_id)
SelectPair(rs, image_id, method) ==
    {id \in DOMAIN rs : rs[id].image_id = image_id /\ rs[id].name_method = method}

\* get_latest_result ordering ascending: the oldest row of the pair, the smallest id first
get_latest_result_oldest(rs, image_id, method) ==
    LET S == SelectPair(rs, image_id, method)
    IN IF S = {} THEN 0
       ELSE CHOOSE id \in S : \A o \in S :
               \/ rs[o].created_at > rs[id].created_at
               \/ rs[o].created_at = rs[id].created_at /\ o >= id

\* ResultService.get_latest_result: order by created_at desc, id desc, limit 1; 0 when absent
get_latest_result(rs, image_id, method) ==
    LET S == SelectPair(rs, image_id, method)
    IN IF S = {} THEN 0
       ELSE CHOOSE id \in S : \A o \in S :
               \/ rs[o].created_at < rs[id].created_at
               \/ rs[o].created_at = rs[id].created_at /\ o <= id

\* ResultService.get_latest_result_data
get_latest_result_data(rs, image_id, method) ==
    LET id == get_latest_result(rs, image_id, method)
    IN IF id = 0 THEN "None" ELSE _unpack(rs[id].result)

\* receive_after_delete: the paths named by the resources of a deleted row
ResourcePaths(result) ==
    IF "resources" \in DOMAIN result
       THEN {result.resources[i].path : i \in DOMAIN result.resources}
       ELSE {}

\* the files left once receive_after_delete has run for every row in deleted
AfterDelete(fs, deleted) == fs \ UNION {ResourcePaths(r) : r \in deleted}

\* a flush that deletes the marked rows before it inserts: the key of the new row is taken
\* from what is left of the table
Flush_deleting_first(rs, row, old) ==
    LET kept == [i \in DOMAIN rs \ old |-> rs[i]]
    IN Put(kept, NewId(kept), row)

\* session.commit(): the flush inserts the added row, then deletes the marked rows
Flush(rs, row, old) ==
    LET id == NewId(rs)
        inserted == [i \in DOMAIN rs \cup {id} |-> IF i = id THEN row ELSE rs[i]]
    IN [i \in DOMAIN inserted \ old |-> inserted[i]]

\* what is remembered of a create call: which operation it was and the params it was given
Origin(op, params) == [op |-> op, params |-> params]

\* a create call that never clears the rows of its pair
ToClear_never(rs, image_id, method, clear_previous) == {}

\* a clearing call that marks every row of the image, whatever its method
ToClear_whole_image(rs, image_id, method, clear_previous) ==
    IF clear_previous THEN {id \in DOMAIN rs : rs[id].image_id = image_id} ELSE {}

\* the rows a call with clear_previous marks for deletion
ToClear(rs, image_id, method, clear_previous) ==
    IF clear_previous THEN SelectPair(rs, image_id, method) ELSE {}

\* ResultService.save_structured_result
save_structured_result(image_id, method, params, data, resources, clear_previous) ==
    /\ UNCHANGED libraryVars
    /\ NewId(results) <= MaxId
    /\ \E ok \in BOOLEAN :
          IF ok
             THEN LET old == ToClear(results, image_id, method, clear_previous)
                  IN /\ results' = Flush(results, Row(image_id, method,
                                                      _pack(params, data, resources), now), old)
                     /\ files' = AfterDelete(files, {results[i].result : i \in old})
                     /\ returned' = Put(returned, NewId(results),
                                              Origin("save_structured_result", params))
                     /\ lastCall' = CallWith("save_structured_result", NewId(results), "row",
                                             [image_id |-> image_id, method |-> method,
                                              clear_previous |-> clear_previous])
             ELSE /\ UNCHANGED <<results, files, returned>>
                  /\ lastCall' = Call("save_structured_result", 0, "HTTP 500")
    /\ UNCHANGED <<now, registryVars, sessions, kmeans>>

\* ResultService.create_pending_result
create_pending_result(image_id, method, params, clear_previous) ==
    /\ UNCHANGED libraryVars
    /\ NewId(results) <= MaxId
    /\ \E ok \in BOOLEAN :
          IF ok
             THEN LET old == ToClear(results, image_id, method, clear_previous)
                      initial_json == _pack(params, [status |-> "processing", progress |-> 0],
                                            [given |-> TRUE, list |-> <<>>])
                  IN /\ results' = Flush(results, Row(image_id, method, initial_json, now), old)
                     /\ files' = AfterDelete(files, {results[i].result : i \in old})
                     /\ returned' = Put(returned, NewId(results),
                                              Origin("create_pending_result", params))
                     /\ lastCall' = CallWith("create_pending_result", NewId(results), "row",
                                             [image_id |-> image_id, method |-> method,
                                              clear_previous |-> clear_previous])
             ELSE /\ UNCHANGED <<results, files, returned>>
                  /\ lastCall' = Call("create_pending_result", 0, "HTTP 500")
    /\ UNCHANGED <<now, registryVars, sessions, kmeans>>

\* update_result_data packing the new data without the params of the stored row
Updated_without_params(rs, result_id, data, resources) ==
    [rs EXCEPT ![result_id].result = _pack(<<>>, data, resources)]

\* the table after update_result_data found the row and committed
Updated(rs, result_id, data, resources) ==
    LET current_json == rs[result_id].result
        params == IF "params" \in DOMAIN current_json THEN current_json.params ELSE <<>>
    IN [rs EXCEPT ![result_id].result = _pack(params, data, resources)]

\* update_result_data inserting a row when the id is not in the table
update_result_data_upsert(rs, result_id, data, resources, ok) ==
    IF ~ok THEN [results |-> rs, ret |-> "None"]
    ELSE IF result_id \notin DOMAIN rs
       THEN [results |-> Put(rs, result_id, Row(7, "kmeans", _pack(<<>>, data, resources), 0)),
             ret |-> "row"]
    ELSE [results |-> Updated(rs, result_id, data, resources), ret |-> "row"]

\* ResultService.update_result_data: the table it leaves and what it returns
update_result_data(rs, result_id, data, resources, ok) ==
    IF ~ok THEN [results |-> rs, ret |-> "None"]
    ELSE IF result_id \notin DOMAIN rs THEN [results |-> rs, ret |-> "None"]
    ELSE [results |-> Updated(rs, result_id, data, resources), ret |-> "row"]

\* a call of update_result_data
UpdateResultData(result_id, data, resources) ==
    /\ UNCHANGED libraryVars
    /\ \E ok \in BOOLEAN :
          LET out == update_result_data(results, result_id, data, resources, ok)
          IN /\ results' = out.results
             /\ lastCall' = CallWith("update_result_data", result_id, out.ret,
                                     [data |-> data, resources |-> OrEmpty(resources)])
    /\ UNCHANGED <<files, now, returned, registryVars, sessions, kmeans>>

\* ResultService.mark_as_failed
mark_as_failed(result_id, error_message) ==
    /\ UNCHANGED libraryVars
    /\ \E ok \in BOOLEAN :
          LET out == update_result_data(results, result_id,
                                        [status |-> "failed", error |-> error_message], None, ok)
          IN /\ results' = out.results
             /\ lastCall' = CallWith("mark_as_failed", result_id, "None",
                                     [error |-> error_message])
    /\ UNCHANGED <<files, now, returned, registryVars, sessions, kmeans>>

\* cv2.imwrite of a result artifact by the job that computed it
WriteArtifact(path) ==
    /\ UNCHANGED libraryVars
    /\ path \notin files
    /\ files' = files \cup {path}
    /\ lastCall' = Call("imwrite", 0, "None")
    /\ UNCHANGED <<results, now, returned, registryVars, sessions, kmeans>>

\* a second passes on the store clock
Tick ==
    /\ UNCHANGED libraryVars
    /\ now < MaxTime
    /\ now' = now + 1
    /\ lastCall' = Call("tick", 0, "None")
    /\ UNCHANGED <<results, files, returned, registryVars, sessions, kmeans>>

RowIds == 1..MaxId

NextStore ==
    \/ \E i \in Images, m \in Methods, p \in ParamsInputs, c \in BOOLEAN :
          create_pending_result(i, m, p, c)
    \/ \E i \in Images, m \in Methods, p \in ParamsInputs, d \in DataInputs,
          r \in ResourceInputs, c \in BOOLEAN :
          save_structured_result(i, m, p, d, r, c)
    \/ \E id \in RowIds, d \in DataInputs, r \in ResourceInputs : UpdateResultData(id, d, r)
    \/ \E id \in RowIds, e \in ErrorInputs : mark_as_failed(id, e)
    \/ \E p \in Paths : WriteArtifact(p)

SpecStore == Init /\ [][NextStore]_vars

\* the images whose rows share the table in the reads of get_latest_result
LatestImages == {7, 8}

\* a call of ResultService.get_latest_result: the id of the row it returns, 0 for None
GetLatestResult(image_id, method) ==
    /\ UNCHANGED libraryVars
    /\ \E ok \in BOOLEAN :
          IF ok
             THEN LET id == get_latest_result(results, image_id, method)
                  IN lastCall' = CallWith("get_latest_result", id,
                                          IF id = 0 THEN "None" ELSE "row",
                                          [image_id |-> image_id, method |-> method])
             ELSE lastCall' = CallWith("get_latest_result", 0, "HTTP 500",
                                       [image_id |-> image_id, method |-> method])
    /\ UNCHANGED <<storeVars, registryVars, sessions, kmeans>>

\* rows created while the store clock advances: what the ordering of get_latest_result sees
NextLatest ==
    \/ \E i \in LatestImages, m \in Methods, c \in BOOLEAN :
          create_pending_result(i, m, [k |-> 3], c)
    \/ \E i \in LatestImages, m \in Methods : GetLatestResult(i, m)
    \/ Tick

SpecLatest == Init /\ [][NextLatest]_vars

\* the create calls on a table that holds rows of two images and two methods
NextFrame ==
    \/ \E i \in LatestImages, m \in Methods, c \in BOOLEAN :
          create_pending_result(i, m, [k |-> 3], c)
    \/ \E i \in LatestImages, m \in Methods, d \in DataInputs, r \in ResourceInputs,
          c \in BOOLEAN :
          save_structured_result(i, m, [k |-> 3], d, r, c)

SpecFrame == Init /\ [][NextFrame]_vars

\* ------------------------------------------------------- pack and unpack
PackKeys == {"k", "status"}
PackValues == {1, 2}
LegacyKeys == {"params", "nclusters"}

\* every dict over the keys with the values
Maps(keys, values) == UNION {[S -> values] : S \in SUBSET keys}

\* a call of _pack whose result is handed to _unpack, as get_latest_result_data does with
\* what the create calls stored
PackThenUnpack(params, data, resources) ==
    /\ UNCHANGED libraryVars
    /\ lastCall' = CallWith("_pack", 0, "None",
                            [params |-> params, data |-> data, resources |-> resources,
                             packed |-> _pack(params, data, resources),
                             unpacked |-> _unpack(_pack(params, data, resources))])
    /\ UNCHANGED <<storeVars, registryVars, sessions, kmeans>>

\* a call of _unpack on a payload of the old flat shape
UnpackLegacy(db_json) ==
    /\ UNCHANGED libraryVars
    /\ lastCall' = CallWith("_unpack", 0, "None",
                            [db_json |-> db_json, unpacked |-> _unpack(db_json)])
    /\ UNCHANGED <<storeVars, registryVars, sessions, kmeans>>

NextPack ==
    \/ \E p \in Maps(PackKeys, PackValues), d \in Maps(PackKeys, PackValues),
          r \in ResourceInputs \cup {[given |-> TRUE, list |-> <<>>]} :
          PackThenUnpack(p, d, r)
    \/ \E m \in Maps(LegacyKeys, PackValues) : UnpackLegacy(m)

SpecPack == Init /\ [][NextPack]_vars

\* ----------------------------------------------------- removal of an image
\* the payload fields delete_all_image_results reads paths from: result_image_path for a
\* k-means row, the listed flat fields for any other method
FlatPathFields(method) ==
    IF method = "kmeans" THEN {"result_image_path"}
    ELSE {"output_file_path", "processed_image_path", "result_path", "blurred_image_path",
          "analysis_result_path"}

\* the files delete_all_image_results removes for one row
FlatPaths(row) ==
    {row.result[f] : f \in FlatPathFields(row.name_method) \cap DOMAIN row.result}

\* select(Results).where(image_id == image_id)
SelectImage(rs, image_id) == {id \in DOMAIN rs : rs[id].image_id = image_id}

\* delete_all_image_results: os.remove of the flat path fields of every row of the image,
\* then delete(Results).where(...) as one statement, which runs no after_delete listener
delete_all_image_results(image_id) ==
    /\ UNCHANGED libraryVars
    /\ \E ok \in BOOLEAN :
          IF ok
             THEN LET result_records == SelectImage(results, image_id)
                  IN /\ files' = files \ UNION {FlatPaths(results[id]) : id \in result_records}
                     /\ results' = [id \in DOMAIN results \ result_records |-> results[id]]
                     /\ lastCall' = CallWith("delete_all_image_results", image_id, "None",
                                             [deleted |-> result_records])
             ELSE /\ UNCHANGED <<results, files>>
                  /\ lastCall' = Call("delete_all_image_results", image_id, "raised")
    /\ UNCHANGED <<now, returned, registryVars, sessions, kmeans>>

NextDelete ==
    \/ \E i \in Images, m \in Methods, p \in ParamsInputs, d \in DataInputs,
          r \in ResourceInputs, c \in BOOLEAN :
          save_structured_result(i, m, p, d, r, c)
    \/ \E p \in Paths : WriteArtifact(p)
    \/ \E i \in Images : delete_all_image_results(i)

SpecDelete == Init /\ [][NextDelete]_vars

\* ------------------------------- create_pending_result, one await at a time
SessionIds == 1..MaxSessions

\* the call is entered on a session of its own; with clear_previous it issues the select
PendingBegin(s, image_id, method, params, clear_previous) ==
    /\ UNCHANGED libraryVars
    /\ s \notin DOMAIN sessions
    /\ sessions' = Put(sessions, s,
                       [pc |-> IF clear_previous THEN "select" ELSE "commit",
                        image_id |-> image_id, method |-> method, params |-> params,
                        old |-> <<>>, marked |-> {}, before |-> results, new |-> 0])
    /\ lastCall' = Call("create_pending_result.begin", s, "None")
    /\ UNCHANGED <<storeVars, registryVars, kmeans>>

\* await self.db.execute(select ...): the rows of the pair as committed at this moment
PendingSelect(s) ==
    /\ UNCHANGED libraryVars
    /\ s \in DOMAIN sessions /\ sessions[s].pc = "select"
    /\ LET ids == SelectPair(results, sessions[s].image_id, sessions[s].method)
       IN sessions' = [sessions EXCEPT ![s].pc = "delete",
                                       ![s].old = [i \in ids |-> results[i].result]]
    /\ lastCall' = Call("create_pending_result.select", s, "None")
    /\ UNCHANGED <<storeVars, registryVars, kmeans>>

\* for record in old_results: await self.db.delete(record)
PendingDelete(s) ==
    /\ UNCHANGED libraryVars
    /\ s \in DOMAIN sessions /\ sessions[s].pc = "delete"
    /\ sessions' = [sessions EXCEPT ![s].pc = "commit", ![s].marked = DOMAIN sessions[s].old]
    /\ lastCall' = Call("create_pending_result.delete", s, "None")
    /\ UNCHANGED <<storeVars, registryVars, kmeans>>

\* self.db.add(new_result); await self.db.commit(): insert, delete the marked rows (a row
\* another session already deleted matches nothing), run receive_after_delete for each
PendingCommit(s) ==
    /\ UNCHANGED libraryVars
    /\ s \in DOMAIN sessions /\ sessions[s].pc = "commit"
    /\ NewId(results) <= MaxId
    /\ LET c == sessions[s]
           initial_json == _pack(c.params, [status |-> "processing", progress |-> 0],
                                 [given |-> TRUE, list |-> <<>>])
       IN /\ results' = Flush(results, Row(c.image_id, c.method, initial_json, now), c.marked)
          /\ files' = AfterDelete(files, {c.old[i] : i \in c.marked})
    /\ sessions' = [sessions EXCEPT ![s].pc = "refresh", ![s].new = NewId(results)]
    /\ lastCall' = Call("create_pending_result.commit", s, "None")
    /\ UNCHANGED <<now, returned, registryVars, kmeans>>

\* what the failed call reports: its session and the table as it was when the call began
Failed(s) ==
    CallWith("create_pending_result", 0, "HTTP 500",
             [session |-> s, before |-> sessions[s].before])

\* await self.db.refresh(new_result): the row is read again and handed back; when the row
\* has gone or the read fails it raises, and the except clause rolls back and raises 500
PendingRefresh(s) ==
    /\ UNCHANGED libraryVars
    /\ s \in DOMAIN sessions /\ sessions[s].pc = "refresh"
    /\ \E ok \in BOOLEAN :
          IF ok /\ sessions[s].new \in DOMAIN results
             THEN /\ returned' = Put(returned, sessions[s].new,
                                     Origin("create_pending_result", sessions[s].params))
                  /\ lastCall' = CallWith("create_pending_result", sessions[s].new, "row",
                                          [image_id |-> sessions[s].image_id,
                                           method |-> sessions[s].method,
                                           clear_previous |-> TRUE])
             ELSE /\ UNCHANGED returned
                  /\ lastCall' = Failed(s)
    /\ sessions' = [i \in DOMAIN sessions \ {s} |-> sessions[i]]
    /\ UNCHANGED <<results, files, now, registryVars, kmeans>>

\* an await up to and including the commit raises: rollback_db, then HTTP 500
PendingRaise(s) ==
    /\ UNCHANGED libraryVars
    /\ s \in DOMAIN sessions /\ sessions[s].pc \in {"select", "delete", "commit"}
    /\ lastCall' = Failed(s)
    /\ sessions' = [i \in DOMAIN sessions \ {s} |-> sessions[i]]
    /\ UNCHANGED <<storeVars, registryVars, kmeans>>

NextConcurrent ==
    \/ \E s \in SessionIds, i \in Images, m \in Methods, p \in ParamsInputs :
          PendingBegin(s, i, m, p, TRUE)
    \/ \E s \in SessionIds : PendingSelect(s)
    \/ \E s \in SessionIds : PendingDelete(s)
    \/ \E s \in SessionIds : PendingCommit(s)
    \/ \E s \in SessionIds : PendingRefresh(s)

SpecConcurrent == Init /\ [][NextConcurrent]_vars

\* create_pending_result calls one after the other on one session, each of which may fail
\* at any of its awaits
NextRollback ==
    \/ \E i \in Images, m \in Methods, p \in ParamsInputs : PendingBegin(1, i, m, p, TRUE)
    \/ PendingSelect(1)
    \/ PendingDelete(1)
    \/ PendingCommit(1)
    \/ PendingRefresh(1)
    \/ PendingRaise(1)

SpecRollback == Init /\ [][NextRollback]_vars

\* ------------------------------------- sessions of requests and their jobs
\* the endpoints that hand work to BackgroundTasks: start_export, apply_kmeans, crop_image
JobKinds == {"export", "kmeans", "crop"}

\* a statement executed on a session
Execute(s, by, kind) ==
    CallWith("execute", s, "None", [session |-> s, by |-> by, kind |-> kind])

\* the endpoint up to its return: get_db opens the session of the request, the endpoint
\* reads the dataset or image row on it and adds the background task, or raises 404
Request(s, kind) ==
    /\ UNCHANGED libraryVars
    /\ s \notin DOMAIN sessions
    /\ \E found \in BOOLEAN :
          sessions' = Put(sessions, s, [opener |-> "request", kind |-> kind, open |-> TRUE,
                                        parent |-> 0, pc |-> IF found THEN "scheduled" ELSE "none"])
    /\ lastCall' = Execute(s, "request", kind)
    /\ UNCHANGED <<storeVars, registryVars, kmeans>>

\* get_db after the endpoint has returned: await session.close()
RequestClose(s) ==
    /\ UNCHANGED libraryVars
    /\ s \in DOMAIN sessions
    /\ sessions[s].opener = "request" /\ sessions[s].open
    /\ sessions' = [sessions EXCEPT ![s].open = FALSE]
    /\ lastCall' = Call("close", s, "None")
    /\ UNCHANGED <<storeVars, registryVars, kmeans>>

\* the background task starts: async with AsyncSessionLocal() as db
JobOpen(j, s) ==
    /\ UNCHANGED libraryVars
    /\ s \in DOMAIN sessions /\ sessions[s].pc = "scheduled"
    /\ j \notin DOMAIN sessions
    /\ sessions' = [Put(sessions, j, [opener |-> "job", kind |-> sessions[s].kind, open |-> TRUE,
                                       parent |-> s, pc |-> "opened"])
                        EXCEPT ![s].pc = "started"]
    /\ lastCall' = Call("AsyncSessionLocal", j, "None")
    /\ UNCHANGED <<storeVars, registryVars, kmeans>>

\* a background job issuing its statements on the session of the request that scheduled it
JobExecute_on_request_session(j) ==
    /\ UNCHANGED libraryVars
    /\ j \in DOMAIN sessions
    /\ sessions[j].opener = "job" /\ sessions[j].pc \in {"opened", "executed"}
    /\ sessions' = [sessions EXCEPT ![j].pc = IF @ = "opened" THEN "executed" ELSE "committed"]
    /\ lastCall' = Execute(sessions[j].parent, "job", sessions[j].kind)
    /\ UNCHANGED <<storeVars, registryVars, kmeans>>

\* the statements of the background job (run_export_task's reads, save_kmeans_result,
\* save_structured_result): each is issued on the db the job opened
JobExecute(j) ==
    /\ UNCHANGED libraryVars
    /\ j \in DOMAIN sessions
    /\ sessions[j].opener = "job" /\ sessions[j].pc \in {"opened", "executed"}
    /\ sessions' = [sessions EXCEPT ![j].pc = IF @ = "opened" THEN "executed" ELSE "committed"]
    /\ lastCall' = Execute(j, "job", sessions[j].kind)
    /\ UNCHANGED <<storeVars, registryVars, kmeans>>

\* the background job leaves its async with block, by its end or by an exception
JobClose(j) ==
    /\ UNCHANGED libraryVars
    /\ j \in DOMAIN sessions
    /\ sessions[j].opener = "job" /\ sessions[j].open
    /\ sessions' = [sessions EXCEPT ![j].open = FALSE, ![j].pc = "closed"]
    /\ lastCall' = Call("close", j, "None")
    /\ UNCHANGED <<storeVars, registryVars, kmeans>>

NextSessions ==
    \/ \E s \in SessionIds, k \in JobKinds : Request(s, k)
    \/ \E s \in SessionIds : RequestClose(s)
    \/ \E j \in SessionIds, s \in SessionIds : JobOpen(j, s)
    \/ \E j \in SessionIds : JobExecute(j)
    \/ \E j \in SessionIds : JobClose(j)

SpecSessions == Init /\ [][NextSessions]_vars

\* ---------------------------------------------------------- k-means flow
JobIds == 1..MaxJobs
InFlight == {"scheduled", "computing", "computed", "raised", "updating"}

\* result_data as apply_kmeans_sync returns it and save_kmeans_result extends it: a flat map
result_data(image_id) ==
    [nclusters |-> 2, centers_sorted |-> <<1, 2>>, result_image_path |-> ResultPath(image_id)]

\* POST /kmeans/{image_id}: everything up to the response
apply_kmeans(image_id) ==
    /\ UNCHANGED libraryVars
    /\ \E outcome \in {"image not found", "file not found", "failed to load",
                       "colors mismatch", "started"} :
          IF outcome = "started"
             THEN /\ Cardinality(DOMAIN kmeans) < MaxJobs
                  /\ kmeans' = Put(kmeans, Cardinality(DOMAIN kmeans) + 1,
                                   [image_id |-> image_id, pc |-> "scheduled",
                                    existing |-> 0, raised |-> FALSE])
                  /\ lastCall' = Call("apply_kmeans", image_id, "200")
             ELSE /\ UNCHANGED kmeans
                  /\ lastCall' = Call("apply_kmeans", image_id,
                                      IF outcome \in {"image not found", "file not found"}
                                         THEN "404" ELSE "400")
    /\ UNCHANGED <<storeVars, registryVars, sessions>>

AtKmeans(j, pc) == j \in DOMAIN kmeans /\ kmeans[j].pc = pc

\* run_kmeans_task: opens its session and hands apply_kmeans_sync to the executor
KmeansStart(j) ==
    /\ UNCHANGED libraryVars
    /\ AtKmeans(j, "scheduled")
    /\ kmeans' = [kmeans EXCEPT ![j].pc = "computing"]
    /\ lastCall' = Call("run_kmeans_task", j, "computing")
    /\ UNCHANGED <<storeVars, registryVars, sessions>>

\* apply_kmeans_sync on an executor thread: returns the clustering or raises
apply_kmeans_sync(j) ==
    /\ UNCHANGED libraryVars
    /\ AtKmeans(j, "computing")
    /\ \E ok \in BOOLEAN :
          kmeans' = [kmeans EXCEPT ![j].pc = IF ok THEN "computed" ELSE "raised",
                                   ![j].raised = ~ok]
    /\ lastCall' = CallWith("apply_kmeans_sync", j, "None", Computed("worker pool"))
    /\ UNCHANGED <<storeVars, registryVars, sessions>>

\* run_kmeans_task resumed with the exception of the computation: logged and re-raised
KmeansRaised(j) ==
    /\ UNCHANGED libraryVars
    /\ AtKmeans(j, "raised")
    /\ kmeans' = [kmeans EXCEPT ![j].pc = "failed"]
    /\ lastCall' = Call("run_kmeans_task", j, "raised")
    /\ UNCHANGED <<storeVars, registryVars, sessions>>

\* save_kmeans_result up to the lookup of an existing k-means row: the image row is read,
\* the artifact is written, the existing rows are selected with scalar_one_or_none; with no
\* row it calls save_analysis_result, which ResultService does not define
save_kmeans_result(j) ==
    /\ UNCHANGED libraryVars
    /\ AtKmeans(j, "computed")
    /\ \E found \in BOOLEAN :
          LET image_id == kmeans[j].image_id
              existing == SelectPair(results, image_id, "kmeans")
          IN IF ~found
                THEN /\ kmeans' = [kmeans EXCEPT ![j].pc = "failed"]
                     /\ UNCHANGED files
                ELSE /\ files' = files \cup {ResultPath(image_id)}
                     /\ kmeans' = IF Cardinality(existing) = 1
                                     THEN [kmeans EXCEPT ![j].pc = "updating",
                                                         ![j].existing = CHOOSE id \in existing : TRUE]
                                     ELSE [kmeans EXCEPT ![j].pc = "failed"]
    /\ lastCall' = Call("save_kmeans_result", j, "None")
    /\ UNCHANGED <<results, now, returned, registryVars, sessions>>

\* save_kmeans_result: update(Results).values(result=result_data), commit, re-read with
\* scalar_one, which raises when the row has gone
KmeansUpdate(j) ==
    /\ UNCHANGED libraryVars
    /\ AtKmeans(j, "updating")
    /\ LET id == kmeans[j].existing
       IN IF id \in DOMAIN results
             THEN /\ results' = [results EXCEPT ![id].result = result_data(kmeans[j].image_id)]
                  /\ kmeans' = [kmeans EXCEPT ![j].pc = "done"]
             ELSE /\ UNCHANGED results
                  /\ kmeans' = [kmeans EXCEPT ![j].pc = "failed"]
    /\ lastCall' = Call("save_kmeans_result", j, "updated")
    /\ UNCHANGED <<files, now, returned, registryVars, sessions>>

run_kmeans_task(j) ==
    \/ KmeansStart(j)
    \/ apply_kmeans_sync(j)
    \/ KmeansRaised(j)
    \/ save_kmeans_result(j)
    \/ KmeansUpdate(j)

\* GET /kmeans/{image_id}/result: the status code of the poll
get_kmeans_result(rs, image_id) ==
    LET rows == SelectPair(rs, image_id, "kmeans")
    IN IF rows = {} THEN "404"
       ELSE IF Cardinality(rows) > 1 THEN "500"
       ELSE "200"

\* GET /kmeans/{image_id}/result answered with 200: the body built from the one row of the
\* pair; has_result_image looks at the flat field result_image_path of the stored payload
kmeans_result_body(rs, fs, image_id) ==
    LET id == CHOOSE r \in SelectPair(rs, image_id, "kmeans") : TRUE
        stored == rs[id].result
        image_exists == /\ "result_image_path" \in DOMAIN stored
                        /\ stored.result_image_path \in fs
    IN [result_id |-> id, image_id |-> rs[id].image_id, method |-> rs[id].name_method,
        created_at |-> rs[id].created_at, result |-> stored,
        has_result_image |-> image_exists]

\* a poll of GET /kmeans/{image_id}/result
GetKmeansResult(image_id) ==
    /\ UNCHANGED libraryVars
    /\ LET code == get_kmeans_result(results, image_id)
       IN lastCall' = CallWith("get_kmeans_result", image_id, code,
                               IF code = "200"
                                  THEN kmeans_result_body(results, files, image_id)
                                  ELSE [detail |-> code])
    /\ UNCHANGED <<storeVars, registryVars, sessions, kmeans>>

\* POST /gaussian-blur/{image_id}: the coroutine reads the image row, loads the file and
\* calls ImageProcessor.blurGaussian and the cv2 encoders itself, with no await in between
apply_gaussian_blur(image_id) ==
    /\ UNCHANGED libraryVars
    /\ \E outcome \in {"image not found", "file not found", "failed to load",
                       "blurred", "raised"} :
          lastCall' =
             IF outcome \in {"image not found", "file not found"}
                THEN CallWith("apply_gaussian_blur", image_id, "404", NotComputed)
             ELSE IF outcome = "failed to load"
                THEN CallWith("apply_gaussian_blur", image_id, "400", NotComputed)
             ELSE CallWith("apply_gaussian_blur", image_id,
                           IF outcome = "blurred" THEN "200" ELSE "500", Computed("event loop"))
    /\ UNCHANGED <<storeVars, registryVars, sessions, kmeans>>

\* POST /auto-crop: the coroutine runs cv2.kmeans and crop_without_white_borders itself
auto_crop_image(image_id) ==
    /\ UNCHANGED libraryVars
    /\ \E outcome \in {"failed to read", "cropped", "raised"} :
          lastCall' =
             IF outcome = "failed to read"
                THEN CallWith("auto_crop_image", image_id, "500", NotComputed)
             ELSE CallWith("auto_crop_image", image_id,
                           IF outcome = "cropped" THEN "200" ELSE "500", Computed("event loop"))
    /\ UNCHANGED <<storeVars, registryVars, sessions, kmeans>>

\* the "processing" row of a k-means pair is made with empty params
NextJobs ==
    \/ \E i \in Images : apply_kmeans(i)
    \/ \E j \in JobIds : run_kmeans_task(j)
    \/ \E i \in Images, c \in BOOLEAN : create_pending_result(i, "kmeans", <<>>, c)
    \/ start_export
    \/ \E id \in TaskIds : run_export_task(id)

SpecJobs == Init /\ [][NextJobs]_vars

\* the requests that compute: k-means and export in the background, blur and auto-crop
\* inside the request
NextCompute ==
    \/ NextJobs
    \/ \E i \in Images : apply_gaussian_blur(i)
    \/ \E i \in Images : auto_crop_image(i)

SpecCompute == Init /\ [][NextCompute]_vars

\* the k-means flow with a client that polls the result
NextPoll ==
    \/ NextJobs
    \/ \E i \in Images : GetKmeansResult(i)

SpecPoll == Init /\ [][NextPoll]_vars

\* export jobs with their worker-pool unit and a subscriber that follows them
NextWorker ==
    \/ start_export
    \/ \E id \in TaskIds : run_export_task(id)
    \/ \E id \in TaskIds : subscribe_to_task(id, "cb1")
    \/ \E n \in 1..MaxNotes : Deliver(n)

SpecWorker == Init /\ [][NextWorker]_vars

\* ------------------------------------------------- registry specification
NextRegistry ==
    \/ TaskService_create_task
    \/ start_export
    \/ \E id \in TaskIds : run_export_task(id)
    \/ \E id \in TaskIds, p \in ProgressInputs, m \in MessageInputs : update_task_progress(id, p, m)
    \/ \E id \in TaskIds, r \in ResultInputs : complete_task(id, r)
    \/ \E id \in TaskIds, e \in ErrorInputs : fail_task(id, e)
    \/ \E id \in TaskIds : cancel_task(id)
    \/ \E id \in TaskIds : remove_task(id)

SpecRegistry == Init /\ [][NextRegistry]_vars

\* --------------------------------------------- retrieval of a job's result
\* GET /download/{task_id}: 400 unless the job is known and COMPLETED; task.result.get on a
\* result of None raises, which the framework answers with 500
download_export(id) ==
    /\ UNCHANGED libraryVars
    /\ lastCall' =
          IF ~Known(id) \/ tasks[id].status # COMPLETED
             THEN Call("download_export", id, "HTTP 400")
          ELSE IF tasks[id].result = NoResult
             THEN Call("download_export", id, "HTTP 500")
          ELSE CallWith("download_export", id, "FileResponse", [result |-> tasks[id].result])
    /\ UNCHANGED <<storeVars, registryVars, sessions, kmeans>>

\* TaskService.get_task_result: None for an unknown id, 400 unless COMPLETED
get_task_result(id) ==
    /\ UNCHANGED libraryVars
    /\ lastCall' =
          IF ~Known(id)
             THEN Call("get_task_result", id, "None")
          ELSE IF tasks[id].status # COMPLETED
             THEN Call("get_task_result", id, "HTTP 400")
          ELSE CallWith("get_task_result", id, "result", [result |-> tasks[id].result])
    /\ UNCHANGED <<storeVars, registryVars, sessions, kmeans>>

NextResult ==
    \/ NextRegistry
    \/ \E id \in TaskIds \cup {NoTask} : download_export(id)
    \/ \E id \in TaskIds \cup {NoTask} : get_task_result(id)

SpecResult == Init /\ [][NextResult]_vars

\* ------------------------------------------- export runs left to themselves
\* export jobs that only their own run and the reads of their status touch
NextExport ==
    \/ start_export
    \/ \E id \in TaskIds : run_export_task(id)
    \/ \E id \in TaskIds \cup {NoTask} : download_export(id)
    \/ \E id \in TaskIds \cup {NoTask} : get_task_result(id)
    \/ Advance

SpecExport == Init /\ [][NextExport]_vars

\* the event loop resumes a scheduled background task and the pool runs a submitted unit
SpecExportLive == SpecExport /\ \A id \in TaskIds : WF_vars(run_export_task(id))

\* ------------------------------------------ registry with its subscribers
NextNotify ==
    \/ TaskService_create_task
    \/ \E id \in TaskIds, cb \in Callbacks : subscribe_to_task(id, cb)
    \/ \E id \in TaskIds, p \in ProgressInputs, m \in MessageInputs : update_task_progress(id, p, m)
    \/ \E id \in TaskIds, r \in ResultInputs : complete_task(id, r)
    \/ \E id \in TaskIds, e \in ErrorInputs : fail_task(id, e)
    \/ \E id \in TaskIds : cancel_task(id)
    \/ \E n \in 1..MaxNotes : Deliver(n)

SpecNotify == Init /\ [][NextNotify]_vars

\* ------------------------------- registry operations on ids that have gone
NextRemoved ==
    \/ TaskService_create_task
    \/ \E id \in TaskIds, cb \in Callbacks : subscribe_to_task(id, cb)
    \/ \E id \in TaskIds : remove_task(id)
    \/ \E id \in TaskIds, p \in ProgressInputs, m \in MessageInputs : update_task_progress(id, p, m)
    \/ \E id \in TaskIds, r \in ResultInputs : complete_task(id, r)
    \/ \E id \in TaskIds, e \in ErrorInputs : fail_task(id, e)
    \/ \E n \in 1..MaxNotes : Deliver(n)

SpecRemoved == Init /\ [][NextRemoved]_vars

\* ---------------------------------------- subscriptions coming and going
NextSubscribe ==
    \/ TaskService_create_task
    \/ \E id \in TaskIds, cb \in Callbacks : subscribe_to_task(id, cb)
    \/ \E id \in TaskIds, cb \in Callbacks : unsubscribe_from_task(id, cb)
    \/ \E id \in TaskIds : remove_task(id)
    \/ \E id \in TaskIds, p \in ProgressInputs, m \in MessageInputs : update_task_progress(id, p, m)
    \/ \E n \in 1..MaxNotes : Deliver(n)

SpecSubscribe == Init /\ [][NextSubscribe]_vars

\* ------------------------------------------------ registry with its sweep
NextSweep ==
    \/ TaskService_create_task
    \/ start_export
    \/ \E id \in TaskIds : run_export_task(id)
    \/ \E id \in TaskIds : cancel_task(id)
    \/ \E id \in TaskIds : subscribe_to_task(id, "cb1")
    \/ \E n \in 1..MaxNotes : Deliver(n)
    \/ Advance
    \/ \E h \in MaxAgeInputs : cleanup_old_tasks(h)

SpecSweep == Init /\ [][NextSweep]_vars

\* ------------------------------------- progress reports of any magnitude
\* update_task_progress takes progress: int as it comes
ProgressArguments == {-1, 50, 150}

NextProgress ==
    \/ TaskService_create_task
    \/ \E id \in TaskIds, p \in ProgressArguments, m \in MessageInputs :
          update_task_progress(id, p, m)
    \/ \E id \in TaskIds, r \in ResultInputs : complete_task(id, r)
    \/ \E id \in TaskIds, e \in ErrorInputs : fail_task(id, e)
    \/ \E id \in TaskIds : cancel_task(id)
    \/ \E id \in TaskIds : remove_task(id)
    \/ Advance

SpecProgress == Init /\ [][NextProgress]_vars

\* ------------------------------------------- callbacks that may raise
\* the transitions that end a job, each of which notifies through notify_subscribers
\* every websocket subscribes a callback of its own (a closure made per connection), so no
\* list holds the same callback twice
Subscribed(id, cb) ==
    id \in DOMAIN subscribers /\ \E i \in DOMAIN subscribers[id] : subscribers[id][i] = cb

NextRaise ==
    \/ TaskService_create_task
    \/ \E id \in TaskIds, cb \in Callbacks : ~Subscribed(id, cb) /\ subscribe_to_task(id, cb)
    \/ \E id \in TaskIds, r \in ResultInputs : complete_task(id, r)
    \/ \E id \in TaskIds, e \in ErrorInputs : fail_task(id, e)
    \/ \E id \in TaskIds : cancel_task(id)
    \/ \E n \in 1..MaxNotes, outcome \in Outcomes : Resumed(n, outcome)

SpecRaise == Init /\ [][NextRaise]_vars

\* ------------------------- subscribers leaving while a delivery is suspended
\* callbacks subscribe before a notification is built; while its delivery is suspended
\* websockets close (unsubscribe_from_task) and jobs are removed
NextDuring ==
    \/ TaskService_create_task
    \/ \E id \in TaskIds, cb \in Callbacks :
          deliveries = <<>> /\ ~Subscribed(id, cb) /\ subscribe_to_task(id, cb)
    \/ \E id \in TaskIds, cb \in Callbacks : unsubscribe_from_task(id, cb)
    \/ \E id \in TaskIds : remove_task(id)
    \/ \E id \in TaskIds, p \in ProgressInputs, m \in MessageInputs : update_task_progress(id, p, m)
    \/ \E n \in 1..MaxNotes : Deliver(n)

SpecDuring == Init /\ [][NextDuring]_vars

\* ----------------------------- a pending row replaced under a running job
\* every request replaces the rows of its pair; the jobs report by the row id they were given
NextReplace ==
    \/ \E i \in Images, m \in Methods, p \in ParamsInputs : create_pending_result(i, m, p, TRUE)
    \/ \E id \in RowIds, d \in DataInputs, r \in ResourceInputs : UpdateResultData(id, d, r)
    \/ \E id \in RowIds, e \in ErrorInputs : mark_as_failed(id, e)

SpecReplace == Init /\ [][NextReplace]_vars

\* ----------------------------------------------------- datasets and images
\* the keys the tables hand out: one more than the largest key in the table
NewDatasetId == Max(datasets \cup {0}) + 1
NewImageId == Max(DOMAIN images \cup {0}) + 1

\* select(Image).where(Image.dataset_id == dataset_id)
ImagesOf(im, dataset_id) == {i \in DOMAIN im : im[i].dataset_id = dataset_id}

\* uploads/results/<dataset_id>/<image_id>_<name>: where the jobs of an image write
ArtifactPath(dataset_id, image_id) ==
    <<"uploads/results", dataset_id, ToString(image_id) \o "_kmeans.jpg">>

\* the files under uploads/results/<dataset_id>
ResultsDirectory(fs, dataset_id) ==
    {f \in fs : f[1] = "uploads/results" /\ f[2] = dataset_id}

\* DatasetService.create_dataset
create_dataset ==
    /\ NewDatasetId <= MaxDatasets
    /\ \E ok \in BOOLEAN :
          IF ok
             THEN /\ datasets' = datasets \cup {NewDatasetId}
                  /\ lastCall' = Call("create_dataset", NewDatasetId, "row")
             ELSE /\ UNCHANGED datasets
                  /\ lastCall' = Call("create_dataset", 0, "HTTP 500")
    /\ UNCHANGED <<images, archives, exporting, imports, importDirs>>
    /\ UNCHANGED <<storeVars, registryVars, sessions, kmeans>>

\* POST /upload: the image row of an uploaded file
upload_image(dataset_id) ==
    /\ NewImageId <= MaxImages
    /\ \E ok \in BOOLEAN :
          IF ok
             THEN /\ images' = Put(images, NewImageId, [dataset_id |-> dataset_id])
                  /\ lastCall' = Call("upload_image", NewImageId, "200")
             ELSE /\ UNCHANGED images
                  /\ lastCall' = Call("upload_image", 0, "HTTP 500")
    /\ UNCHANGED <<datasets, archives, exporting, imports, importDirs>>
    /\ UNCHANGED <<storeVars, registryVars, sessions, kmeans>>

\* DELETE /remove-image/{image_id}: delete_all_image_results commits the removal of the
\* rows of the image, then ImageService.delete_image commits the removal of the image
remove_image(image_id) ==
    /\ IF image_id \notin DOMAIN images
          THEN /\ UNCHANGED <<results, files, images>>
               /\ lastCall' = Call("remove_image", image_id, "HTTP 404")
          ELSE \E outcome \in {"deleted", "results deleted", "raised"} :
                  LET result_records == SelectImage(results, image_id)
                  IN /\ IF outcome = "raised"
                           THEN UNCHANGED <<results, files>>
                           ELSE /\ files' = files \ UNION {FlatPaths(results[id]) :
                                                              id \in result_records}
                                /\ results' = [id \in DOMAIN results \ result_records |->
                                                  results[id]]
                     /\ images' = IF outcome = "deleted"
                                     THEN [i \in DOMAIN images \ {image_id} |-> images[i]]
                                     ELSE images
                     /\ lastCall' = Call("remove_image", image_id,
                                         IF outcome = "deleted" THEN "200" ELSE "HTTP 500")
    /\ UNCHANGED <<datasets, archives, exporting, imports, importDirs>>
    /\ UNCHANGED <<now, returned, registryVars, sessions, kmeans>>

\* DatasetService.delete_dataset: the image rows go in one delete statement and a commit,
\* the two upload directories are removed, then the dataset row goes; no statement names
\* the results table
delete_dataset(dataset_id) ==
    /\ IF dataset_id \notin datasets
          THEN /\ UNCHANGED <<files, images, datasets>>
               /\ lastCall' = Call("delete_dataset", dataset_id, "HTTP 404")
          ELSE \E outcome \in {"deleted", "images deleted", "raised"} :
                  /\ images' = IF outcome = "raised" THEN images
                               ELSE [i \in DOMAIN images \ ImagesOf(images, dataset_id) |->
                                        images[i]]
                  /\ files' = IF outcome = "deleted"
                                 THEN files \ ResultsDirectory(files, dataset_id)
                                 ELSE files
                  /\ datasets' = IF outcome = "deleted" THEN datasets \ {dataset_id}
                                 ELSE datasets
                  /\ lastCall' = Call("delete_dataset", dataset_id,
                                      IF outcome = "deleted" THEN "row" ELSE "HTTP 500")
    /\ UNCHANGED <<archives, exporting, imports, importDirs>>
    /\ UNCHANGED <<results, now, returned, registryVars, sessions, kmeans>>

\* DELETE /remove-dataset/{dataset_id}: the image rows and the dataset row go in one commit,
\* then the folder of the image files; neither the results table nor the results folder
\* is touched
remove_dataset(dataset_id) ==
    /\ IF dataset_id \notin datasets
          THEN /\ UNCHANGED <<images, datasets>>
               /\ lastCall' = Call("remove_dataset", dataset_id, "HTTP 404")
          ELSE \E ok \in BOOLEAN :
                  IF ok
                     THEN /\ images' = [i \in DOMAIN images \ ImagesOf(images, dataset_id) |->
                                           images[i]]
                          /\ datasets' = datasets \ {dataset_id}
                          /\ lastCall' = Call("remove_dataset", dataset_id, "200")
                     ELSE /\ UNCHANGED <<images, datasets>>
                          /\ lastCall' = Call("remove_dataset", dataset_id, "HTTP 500")
    /\ UNCHANGED <<archives, exporting, imports, importDirs>>
    /\ UNCHANGED <<storeVars, registryVars, sessions, kmeans>>

DatasetIds == 1..MaxDatasets
ImageIds == 1..MaxImages

\* a result with its artifact, as the background job of an endpoint saves it for an image
SaveResultOf(image_id) ==
    /\ image_id \in DOMAIN images
    /\ \E m \in Methods :
          save_structured_result(image_id, m, [k |-> 3],
                                 [status |-> "completed", centers |-> <<1, 2, 3>>],
                                 [given |-> TRUE,
                                  list |-> <<Resource(ArtifactPath(images[image_id].dataset_id,
                                                                   image_id))>>],
                                 TRUE)

\* ------------------------------------------------ export of a known dataset
ExportIds == 1..MaxExports

\* the elements of a set of keys in ascending order, as a sequence
Ascending(S) ==
    CHOOSE seq \in [1..Cardinality(S) -> S] :
        \A i, j \in 1..Cardinality(S) : i < j => seq[i] < seq[j]

\* exports/dataset_<id>_<title>.zip: the name is made of the dataset alone
ZipPath(dataset_id) == <<"exports", dataset_id>>

\* POST /export/{dataset_id} with the lookup of the dataset row
start_export_of(dataset_id) ==
    /\ IF dataset_id \notin datasets
          THEN /\ UNCHANGED <<tasks, nextTaskId, exportPc, exporting>>
               /\ lastCall' = Call("start_export", NoTask, "404")
          ELSE /\ nextTaskId <= MaxExports
               /\ tasks' = create_task(tasks, nextTaskId, "dataset_export")
               /\ nextTaskId' = nextTaskId + 1
               /\ exportPc' = Put(exportPc, nextTaskId, "scheduled")
               /\ exporting' = Put(exporting, nextTaskId,
                                   [dataset_id |-> dataset_id, images |-> <<>>,
                                    results_map |-> <<>>])
               /\ lastCall' = Call("start_export", nextTaskId, "queued")
    /\ UNCHANGED <<datasets, images, archives, imports, importDirs>>
    /\ UNCHANGED <<tempDirs, cancelledInFlight, quietVars, storeVars, sessions, kmeans>>

\* run_export_task: db.get(Dataset), get_images_by_dataset and the select of the results of
\* those images; the objects read here are what _create_zip_sync is given
ExportCollectOf(id) ==
    /\ AtExport(id, "collecting")
    /\ id \in DOMAIN exporting
    /\ LET dataset_id == exporting[id].dataset_id
           image_ids == ImagesOf(images, dataset_id)
       IN IF dataset_id \in datasets
             THEN /\ tasks' = update_task(tasks, id, PROCESSING, "Compressing images...",
                                          NoResult, NoError)
                  /\ exportPc' = [exportPc EXCEPT ![id] = "zipping"]
                  /\ exporting' = [exporting EXCEPT
                        ![id].images = Ascending(image_ids),
                        ![id].results_map =
                            [r \in {r \in DOMAIN results : results[r].image_id \in image_ids} |->
                                results[r]]]
                  /\ lastCall' = Call("run_export_task", id, "zipping")
             ELSE /\ tasks' = update_task(tasks, id, FAILED, "", NoResult, "Dataset not found")
                  /\ exportPc' = [exportPc EXCEPT ![id] = "done"]
                  /\ UNCHANGED exporting
                  /\ lastCall' = Call("run_export_task", id, "failed")
    /\ update_task_notifies(id)
    /\ UNCHANGED <<datasets, images, archives, imports, importDirs>>
    /\ UNCHANGED <<nextTaskId, tempDirs, cancelledInFlight>>
    /\ UNCHANGED <<clock, subscribers, storeVars, sessions, kmeans>>

\* the name a copied resource file gets in the archive: <img.id>_<uuid>_<name>, the uuid
\* standing for one resource of one result
ArchiveName(image_id, result_id, k, path) ==
    <<"results", ToString(image_id) \o "_" \o ToString(result_id) \o ToString(k) \o "_" \o path[3]>>

IsImageResource(r) == "type" \in DOMAIN r /\ r.type = "image" /\ "path" \in DOMAIN r

\* the resources _create_zip_sync writes to the manifest for one result: an image resource
\* whose file exists is copied and renamed, one whose file is missing is dropped, anything
\* else is kept as it is
ExportedResources(resources, fs, image_id, result_id) ==
    LET renamed == [k \in DOMAIN resources |->
                       IF IsImageResource(resources[k])
                          THEN [resources[k] EXCEPT
                                   !.path = ArchiveName(image_id, result_id, k, @)]
                          ELSE resources[k]]
        kept == {k \in DOMAIN resources :
                    IsImageResource(resources[k]) => resources[k].path \in fs}
    IN [n \in 1..Cardinality(kept) |-> renamed[Ascending(kept)[n]]]

\* the files _create_zip_sync copies into results/ for one result
CopiedResources(resources, fs, image_id, result_id) ==
    {ArchiveName(image_id, result_id, k, resources[k].path) :
        k \in {k \in DOMAIN resources :
                  IsImageResource(resources[k]) /\ resources[k].path \in fs}}

\* res.result as the manifest carries it: its resources replaced by the exported ones
ExportedResult(row, fs, result_id) ==
    LET res_json == row.result
        resources == IF "resources" \in DOMAIN res_json THEN res_json.resources ELSE <<>>
    IN [name_method |-> row.name_method,
        result_data |-> [resources |-> ExportedResources(resources, fs, row.image_id, result_id)]
                            @@ res_json]

\* the manifest _create_zip_sync writes: one item per image, each with its results
Manifest(job, fs) ==
    [images |->
        [n \in DOMAIN job.images |->
            LET image_id == job.images[n]
                ids == Ascending({r \in DOMAIN job.results_map :
                                     job.results_map[r].image_id = image_id})
            IN [image_id |-> image_id,
                results |-> [k \in DOMAIN ids |->
                                ExportedResult(job.results_map[ids[k]], fs, ids[k])]]]]

\* the files of the archive under results/
ArchiveEntries(job, fs) ==
    UNION {LET row == job.results_map[r]
           IN IF "resources" \in DOMAIN row.result
                 THEN CopiedResources(row.result.resources, fs, row.image_id, r)
                 ELSE {} : r \in DOMAIN job.results_map}

\* shutil.make_archive on exports/dataset_<id>_<title>: the file of that name is written
\* anew, whoever wrote it before
Written(ar, id, job, fs) ==
    Put(ar, job.dataset_id,
        [manifest |-> Manifest(job, fs),
         entries |-> ArchiveEntries(job, fs),
         by |-> IF job.dataset_id \in DOMAIN ar
                   THEN Append(ar[job.dataset_id].by, id)
                   ELSE <<id>>])

\* _create_zip_sync of a known dataset on a worker thread: the working directory, the
\* copies, the manifest and the archive under exports/
create_zip_sync_of(id) ==
    /\ AtExport(id, "zipping")
    /\ id \in DOMAIN exporting
    /\ \E outcome \in {"zipped", "raised", "raised_early"} :
          /\ tempDirs' = IF outcome = "raised_early" THEN tempDirs ELSE tempDirs \cup {id}
          /\ exportPc' = [exportPc EXCEPT ![id] = IF outcome = "zipped" THEN "zipped" ELSE "zip_failed"]
          /\ archives' = IF outcome = "zipped"
                            THEN Written(archives, id, exporting[id], files)
                            ELSE archives
    /\ lastCall' = CallWith("_create_zip_sync", id, "None", Computed("worker pool"))
    /\ UNCHANGED <<datasets, images, exporting, imports, importDirs>>
    /\ UNCHANGED <<tasks, nextTaskId, cancelledInFlight, quietVars, storeVars, sessions, kmeans>>

\* run_export_task of a job whose dataset is known
run_export_task_of(id) ==
    \/ ExportStart(id)
    \/ ExportCollectOf(id)
    \/ create_zip_sync_of(id)
    \/ ExportRecord(id)
    \/ ExportRecordRaised(id)
    \/ ExportRaised(id)
    \/ ExportCleanup(id)

\* --------------------------------------- export jobs of the same dataset
NextTwoExports ==
    \/ create_dataset
    \/ \E d \in DatasetIds : start_export_of(d)
    \/ \E id \in ExportIds : run_export_task_of(id)

SpecTwoExports == Init /\ [][NextTwoExports]_vars

\* ------------------------------------------- deletion of images and datasets
NextLibrary ==
    \/ create_dataset
    \/ \E d \in DatasetIds : d \in datasets /\ upload_image(d)
    \/ \E i \in ImageIds : SaveResultOf(i)
    \/ \E i \in ImageIds : remove_image(i)
    \/ \E d \in DatasetIds : delete_dataset(d)
    \/ \E d \in DatasetIds : remove_dataset(d)

SpecLibrary == Init /\ [][NextLibrary]_vars

\* ------------------------------------------------------- import of an archive
ImportIds == 1..MaxImports

\* temp_import_<uuid4>: a name no earlier call had
NewImportId == Max(DOMAIN imports \cup importDirs \cup {0}) + 1

\* what a client can post to /import: a file that is no zip, a zip without manifest.json,
\* or an archive an export job wrote under exports/
Uploads(ar) ==
    {[kind |-> "not a zip"], [kind |-> "no manifest"]}
        \cup {[kind |-> "archive", dataset_id |-> d, by |-> ar[d].by[Len(ar[d].by)],
               manifest |-> ar[d].manifest, entries |-> ar[d].entries] : d \in DOMAIN ar}

AtImport(id, pc) == id \in DOMAIN imports /\ imports[id].pc = pc

\* import_dataset up to its first await: the working directory is made and the copy of the
\* uploaded file into upload.zip begins
ImportBegin(upload) ==
    /\ NewImportId <= MaxImports
    /\ imports' = Put(imports, NewImportId,
                      [pc |-> "writing", upload |-> upload, loop |-> FALSE,
                       dataset_id |-> 0, n |-> 1, pending |-> <<>>])
    /\ importDirs' = importDirs \cup {NewImportId}
    /\ lastCall' = Call("import_dataset", NewImportId, "awaiting")
    /\ UNCHANGED <<datasets, images, archives, exporting>>
    /\ UNCHANGED <<storeVars, registryVars, sessions, kmeans>>

\* the except and finally blocks of import_dataset: rollback_db discards what the session
\* has not committed, HTTP 500 "Import failed: ..." is raised, and the working directory is
\* removed through `loop`; when `loop` was never assigned the removal raises
\* UnboundLocalError, which the inner except swallows
ImportFailed(id) ==
    /\ imports' = [imports EXCEPT ![id].pc = "done", ![id].pending = <<>>]
    /\ importDirs' = IF imports[id].loop THEN importDirs \ {id} ELSE importDirs
    /\ lastCall' = CallWith("import_dataset", id, "HTTP 500", [detail |-> "Import failed"])

\* the loop of file.read and f.write into upload.zip
ImportWrite(id) ==
    /\ AtImport(id, "writing")
    /\ \E ok \in BOOLEAN :
          IF ok
             THEN /\ imports' = [imports EXCEPT ![id].pc = "unpacking", ![id].loop = TRUE]
                  /\ UNCHANGED importDirs
                  /\ lastCall' = Call("import_dataset", id, "awaiting")
             ELSE ImportFailed(id)
    /\ UNCHANGED <<datasets, images, archives, exporting>>
    /\ UNCHANGED <<storeVars, registryVars, sessions, kmeans>>

\* shutil.unpack_archive on a worker thread
ImportUnpack(id) ==
    /\ AtImport(id, "unpacking")
    /\ IF imports[id].upload.kind = "not a zip"
          THEN ImportFailed(id)
          ELSE /\ imports' = [imports EXCEPT ![id].pc = "manifest"]
               /\ UNCHANGED importDirs
               /\ lastCall' = Call("import_dataset", id, "awaiting")
    /\ UNCHANGED <<datasets, images, archives, exporting>>
    /\ UNCHANGED <<storeVars, registryVars, sessions, kmeans>>

\* the manifest is read and the new dataset row is committed
ImportManifest(id) ==
    /\ AtImport(id, "manifest")
    /\ IF imports[id].upload.kind = "no manifest"
          THEN /\ ImportFailed(id)
               /\ UNCHANGED datasets
          ELSE \E ok \in BOOLEAN :
                  IF ok
                     THEN /\ NewDatasetId <= MaxDatasets
                          /\ datasets' = datasets \cup {NewDatasetId}
                          /\ imports' = [imports EXCEPT
                                ![id].dataset_id = NewDatasetId,
                                ![id].pc = IF imports[id].upload.manifest.images = <<>>
                                              THEN "commit" ELSE "images"]
                          /\ UNCHANGED importDirs
                          /\ lastCall' = Call("import_dataset", id, "awaiting")
                     ELSE /\ ImportFailed(id)
                          /\ UNCHANGED datasets
    /\ UNCHANGED <<images, archives, exporting>>
    /\ UNCHANGED <<storeVars, registryVars, sessions, kmeans>>

\* the rows the session holds are inserted by a commit, each with the next primary key
Inserted(rs, rows) ==
    [i \in DOMAIN rs \cup {NewId(rs) + k - 1 : k \in DOMAIN rows} |->
        IF i \in DOMAIN rs THEN rs[i] ELSE rows[i - NewId(rs) + 1]]

\* the path an imported resource file gets: uploads/results/<new_dataset.id>/<new_image.id>_<name>
ImportedPath(dataset_id, image_id, rel_path) ==
    <<"uploads/results", dataset_id, ToString(image_id) \o "_" \o rel_path[2]>>

\* an import that leaves the path of the manifest in the resource
ImportedResources_keeping_the_manifest_path(resources, entries, dataset_id, image_id) ==
    LET kept == {k \in DOMAIN resources :
                    IsImageResource(resources[k]) => resources[k].path \in entries}
    IN [n \in 1..Cardinality(kept) |-> resources[Ascending(kept)[n]]]

\* the resources of an imported result: an image resource whose file is in the archive is
\* copied and given its new path, one whose file is missing is dropped, anything else is kept
ImportedResources(resources, entries, dataset_id, image_id) ==
    LET renamed == [k \in DOMAIN resources |->
                       IF IsImageResource(resources[k])
                          THEN [resources[k] EXCEPT
                                   !.path = ImportedPath(dataset_id, image_id, @)]
                          ELSE resources[k]]
        kept == {k \in DOMAIN resources :
                    IsImageResource(resources[k]) => resources[k].path \in entries}
    IN [n \in 1..Cardinality(kept) |-> renamed[Ascending(kept)[n]]]

\* res_data.get("resources", [])
ResourcesOf(res_data) == IF "resources" \in DOMAIN res_data THEN res_data.resources ELSE <<>>

\* the files shutil.copy2 writes for the results of one image
ImportedFiles(item, entries, dataset_id, image_id) ==
    UNION {{ImportedPath(dataset_id, image_id, r.path) :
               r \in {ResourcesOf(item.results[k].result_data)[j] :
                         j \in {j \in DOMAIN ResourcesOf(item.results[k].result_data) :
                                   /\ IsImageResource(ResourcesOf(item.results[k].result_data)[j])
                                   /\ ResourcesOf(item.results[k].result_data)[j].path \in entries}}} :
           k \in DOMAIN item.results}

\* the Results objects added to the session for one image of the manifest
ImportedRows(item, entries, dataset_id, image_id, at) ==
    [k \in DOMAIN item.results |->
        Row(image_id, item.results[k].name_method,
            [resources |-> ImportedResources(ResourcesOf(item.results[k].result_data),
                                             entries, dataset_id, image_id)]
                @@ item.results[k].result_data,
            at)]

\* one turn of the loop over manifest.images: the commit of the image row, which also
\* inserts the result rows the turn before added, then the copies and the result objects
\* of this image
ImportImage(id) ==
    /\ AtImport(id, "images")
    /\ LET import == imports[id]
           item == import.upload.manifest.images[import.n]
       IN \E ok \in BOOLEAN :
             IF ok
                THEN /\ NewImageId <= MaxImages
                     /\ NewId(results) + Len(import.pending) - 1 <= MaxId
                     /\ images' = Put(images, NewImageId, [dataset_id |-> import.dataset_id])
                     /\ results' = Inserted(results, import.pending)
                     /\ files' = files \cup ImportedFiles(item, import.upload.entries,
                                                         import.dataset_id, NewImageId)
                     /\ imports' = [imports EXCEPT
                           ![id].pending = ImportedRows(item, import.upload.entries,
                                                        import.dataset_id, NewImageId, now),
                           ![id].n = @ + 1,
                           ![id].pc = IF import.n = Len(import.upload.manifest.images)
                                         THEN "commit" ELSE "images"]
                     /\ UNCHANGED importDirs
                     /\ lastCall' = Call("import_dataset", id, "awaiting")
                ELSE /\ ImportFailed(id)
                     /\ UNCHANGED <<images, results, files>>
    /\ UNCHANGED <<datasets, archives, exporting>>
    /\ UNCHANGED <<now, returned, registryVars, sessions, kmeans>>

\* the last commit, the return of the new dataset and the finally block
ImportCommit(id) ==
    /\ AtImport(id, "commit")
    /\ \E ok \in BOOLEAN :
          IF ok
             THEN /\ NewId(results) + Len(imports[id].pending) - 1 <= MaxId
                  /\ results' = Inserted(results, imports[id].pending)
                  /\ imports' = [imports EXCEPT ![id].pc = "done", ![id].pending = <<>>]
                  /\ importDirs' = importDirs \ {id}
                  /\ lastCall' = CallWith("import_dataset", id, "dataset",
                                          [dataset_id |-> imports[id].dataset_id])
             ELSE /\ ImportFailed(id)
                  /\ UNCHANGED results
    /\ UNCHANGED <<datasets, images, archives, exporting>>
    /\ UNCHANGED <<files, now, returned, registryVars, sessions, kmeans>>

\* ArchiveService.import_dataset
import_dataset(id) ==
    \/ ImportWrite(id)
    \/ ImportUnpack(id)
    \/ ImportManifest(id)
    \/ ImportImage(id)
    \/ ImportCommit(id)

\* --------------------------------------------------- imports into a library
NextImport ==
    \/ create_dataset
    \/ \E d \in DatasetIds : d \in datasets /\ upload_image(d)
    \/ \E d \in DatasetIds : start_export_of(d)
    \/ \E id \in ExportIds : run_export_task_of(id)
    \/ \E upload \in Uploads(archives) : ImportBegin(upload)
    \/ \E id \in ImportIds : import_dataset(id)

SpecImport == Init /\ [][NextImport]_vars

\* ------------------------------------- one dataset exported, then imported
NoExportRunning == \A id \in DOMAIN exportPc : exportPc[id] = "done"
NoImportRunning == \A id \in DOMAIN imports : imports[id].pc = "done"

\* the library is still being filled: nothing was exported or imported yet
Unexported == exporting = <<>> /\ imports = <<>>

\* the uploads that are archives written by an export job
ArchiveUploads(ar) == {upload \in Uploads(ar) : upload.kind = "archive"}

\* a dataset is filled with images, results and their artifacts, exported until an archive
\* stands under exports/, and that archive is imported, one call after the other
NextRoundTrip ==
    \/ datasets = {} /\ create_dataset
    \/ \E d \in DatasetIds : Unexported /\ d \in datasets /\ upload_image(d)
    \/ \E i \in ImageIds : Unexported /\ SaveResultOf(i)
    \/ \E i \in ImageIds :
          /\ Unexported
          /\ i \in DOMAIN images
          /\ WriteArtifact(ArtifactPath(images[i].dataset_id, i))
    \/ \E d \in DatasetIds :
          NoExportRunning /\ imports = <<>> /\ archives = <<>> /\ start_export_of(d)
    \/ \E id \in ExportIds : run_export_task_of(id)
    \/ \E upload \in ArchiveUploads(archives) :
          NoExportRunning /\ NoImportRunning /\ ImportBegin(upload)
    \/ \E id \in ImportIds : import_dataset(id)

SpecRoundTrip == Init /\ [][NextRoundTrip]_vars

\* ------------------------------------------------------------------ claims
\* the status stored in a row's payload ("None" for a flat legacy payload without one)
StoredStatus(result) ==
    IF "data" \in DOMAIN result /\ "status" \in DOMAIN result.data THEN result.data.status
    ELSE "None"

CreateOps == {"create_pending_result", "save_structured_result"}
UpdateOps == {"update_result_data", "mark_as_failed"}

\* C1: once a job's status is COMPLETED, FAILED or CANCELLED, no call changes it again
\* while the job stays registered.
C1_TerminalIsAbsorbing ==
    [][\A id \in DOMAIN tasks :
          (tasks[id].status \in Terminal /\ id \in DOMAIN tasks')
             => tasks'[id].status = tasks[id].status]_vars

\* C2: a job cancelled while PROCESSING with its unit of work running on a worker thread
\* has cancel return True and become CANCELLED, and a completion applied afterwards
\* (complete_task, or the export's COMPLETED update) leaves it CANCELLED without a result.
C2_LateCompletionIgnored ==
    /\ (lastCall.op = "cancel_task" /\ lastCall.ret = "True")
          => tasks[lastCall.id].status = CANCELLED
    /\ (/\ lastCall.op \in {"complete_task", "export_completed_update"}
        /\ lastCall.id \in cancelledInFlight
        /\ lastCall.id \in DOMAIN tasks)
          => /\ tasks[lastCall.id].status = CANCELLED
             /\ tasks[lastCall.id].result = NoResult

\* C3: a create_pending_result or save_structured_result call with clear_previous=True
\* leaves exactly one row for its (image_id, method) pair, the row it returns, under an id
\* that no earlier create call returned.
C3_ReplacePreviousLeavesOne ==
    [][(/\ lastCall'.op \in CreateOps
        /\ lastCall'.ret = "row"
        /\ lastCall'.arg.clear_previous)
          => /\ SelectPair(results', lastCall'.arg.image_id, lastCall'.arg.method)
                   = {lastCall'.id}
             /\ lastCall'.id \notin DOMAIN returned]_vars

C3_Witness ==
    /\ lastCall.op = "create_pending_result"
    /\ lastCall.ret = "row"
    /\ lastCall.arg.clear_previous
    /\ \E earlier \in DOMAIN returned :
          /\ earlier # lastCall.id
          /\ earlier \notin DOMAIN results
          /\ returned[earlier].op = "create_pending_result"

\* C4: from the response of the k-means start request until its job has ended, the latest
\* result of that (image, "kmeans") pair is there to be polled, never 'not found'.
C4_PollableWhileRunning ==
    \A j \in DOMAIN kmeans :
       kmeans[j].pc \in InFlight
          => /\ get_latest_result(results, kmeans[j].image_id, "kmeans") # 0
             /\ get_kmeans_result(results, kmeans[j].image_id) # "404"

\* C5: when the offloaded k-means computation has raised and its job has ended, the
\* latest row of the pair carries status "failed" and no row of the pair is "processing".
C5_FailureIsRecorded ==
    \A j \in DOMAIN kmeans :
       (kmeans[j].pc = "failed" /\ kmeans[j].raised)
          => LET image_id == kmeans[j].image_id
                 latest == get_latest_result(results, image_id, "kmeans")
             IN /\ latest # 0
                /\ StoredStatus(results[latest].result) = "failed"
                /\ \A id \in SelectPair(results, image_id, "kmeans") :
                      StoredStatus(results[id].result) # "processing"

\* C6: a row made by create_pending_result whose status is already "completed" or
\* "failed" is not modified by a later update_result_data or mark_as_failed.
C6_FinalRowIsNeverRewritten ==
    [][\A id \in DOMAIN results :
          (/\ lastCall'.op \in UpdateOps
           /\ id \in DOMAIN returned
           /\ returned[id].op = "create_pending_result"
           /\ StoredStatus(results[id].result) \in {"completed", "failed"}
           /\ id \in DOMAIN results')
             => results'[id] = results[id]]_vars

\* C7: a start request that fails validation (k-means: image or file missing, image not
\* loadable, colours mismatch; export: dataset missing) changes nothing: no row, file,
\* registry job or background job is created or removed.
C7_FailedRequestCreatesNothing ==
    [][(/\ lastCall'.op \in {"apply_kmeans", "start_export"}
        /\ lastCall'.ret \in {"404", "400"})
          => UNCHANGED <<results, files, returned, tasks, nextTaskId, exportPc, tempDirs,
                         kmeans, sessions>>]_vars

C7_Witness ==
    /\ lastCall.op = "start_export"
    /\ lastCall.ret = "404"
    /\ DOMAIN kmeans # {}
    /\ DOMAIN results # {}

\* C8: at most one row per (image_id, method) pair exists at any time, also while
\* create_pending_result calls with clear_previous=True interleave on separate sessions.
C8_AtMostOneRowPerPair ==
    \A i \in Images, m \in Methods : Cardinality(SelectPair(results, i, m)) <= 1

\* the frame effect of update_result_data on the row it found
UpdateKeepsParamsReplacesData(id) ==
    /\ id \in DOMAIN results'
    /\ results'[id].result.params = returned[id].params
    /\ results'[id].result.data = lastCall'.arg.data
    /\ results'[id].result.resources = lastCall'.arg.resources
    /\ DOMAIN results'[id].result = {"params", "data", "resources"}
    /\ \A o \in DOMAIN results : o # id => (o \in DOMAIN results' /\ results'[o] = results[o])

\* what the unpacked read of the updated row's pair gives after the call
LatestDataAfter(id) ==
    get_latest_result_data(results', results[id].image_id, results[id].name_method)

\* params overlaid with data, data winning
Overlay(params, data) ==
    [key \in DOMAIN params \cup DOMAIN data |->
        IF key \in DOMAIN data THEN data[key] ELSE params[key]]

\* C9 as stated: update_result_data on an existing row keeps its params, replaces data and
\* resources, and get_latest_result_data for the pair then gives params overlaid with data.
C9_UpdateThenLatestAsStated ==
    [][(lastCall'.op = "update_result_data" /\ lastCall'.ret = "row")
          => /\ UpdateKeepsParamsReplacesData(lastCall'.id)
             /\ LatestDataAfter(lastCall'.id)
                   = Overlay(returned[lastCall'.id].params, lastCall'.arg.data)]_vars

\* C9 amended: the same, the unpacked read being promised only when the updated row is the
\* latest row of its pair.
C9_UpdateKeepsParams ==
    [][(lastCall'.op = "update_result_data" /\ lastCall'.ret = "row")
          => /\ UpdateKeepsParamsReplacesData(lastCall'.id)
             /\ (get_latest_result(results', results[lastCall'.id].image_id,
                                   results[lastCall'.id].name_method) = lastCall'.id)
                   => LatestDataAfter(lastCall'.id)
                         = Overlay(returned[lastCall'.id].params, lastCall'.arg.data)]_vars

C9_Witness ==
    /\ lastCall.op = "update_result_data"
    /\ lastCall.ret = "row"
    /\ lastCall.id \in DOMAIN results
    /\ returned[lastCall.id].params = [k |-> 5, status |-> "stale"]
    /\ get_latest_result(results, results[lastCall.id].image_id,
                         results[lastCall.id].name_method) = lastCall.id
    /\ get_latest_result_data(results, results[lastCall.id].image_id,
                              results[lastCall.id].name_method)
          = [k |-> 5, status |-> "completed", centers |-> <<1, 2, 3>>]

\* C10: update_result_data and mark_as_failed on an id that has no row return None and
\* leave the table and the files as they were.
C10_MissingRowIsNoOp ==
    [][(lastCall'.op \in UpdateOps /\ lastCall'.id \notin DOMAIN results)
          => /\ lastCall'.ret = "None"
             /\ results' = results
             /\ files' = files]_vars

C10_Witness ==
    /\ lastCall.op = "mark_as_failed"
    /\ lastCall.id \in DOMAIN returned
    /\ lastCall.id \notin DOMAIN results
    /\ DOMAIN results # {}

\* C11: cancel_task on a job whose status is COMPLETED, FAILED or CANCELLED returns False
\* and leaves the job as it was.
C11_CancelOnTerminalIsRefused ==
    [][\A id \in DOMAIN tasks :
          (/\ lastCall'.op = "cancel_task"
           /\ lastCall'.id = id
           /\ tasks[id].status \in Terminal)
             => /\ lastCall'.ret = "False"
                /\ tasks' = tasks]_vars

\* the status changes the state machine allows
AllowedTransitions ==
    {<<QUEUED, PROCESSING>>, <<PROCESSING, COMPLETED>>, <<PROCESSING, FAILED>>,
     <<QUEUED, CANCELLED>>, <<PROCESSING, CANCELLED>>}

\* C12: a job enters the registry as QUEUED, and every change of a registered job's status
\* is QUEUED->PROCESSING, PROCESSING->COMPLETED, PROCESSING->FAILED, QUEUED->CANCELLED or
\* PROCESSING->CANCELLED.
C12_OnlyAllowedTransitions ==
    [][\A id \in DOMAIN tasks' :
          IF id \in DOMAIN tasks
             THEN \/ tasks'[id].status = tasks[id].status
                  \/ <<tasks[id].status, tasks'[id].status>> \in AllowedTransitions
             ELSE tasks'[id].status = QUEUED]_vars

NotifyingOps == {"update_task_progress", "complete_task", "fail_task", "cancel_task"}

\* C13: update_task_progress, complete_task, fail_task and cancel_task on a known job with
\* subscribers build one notification carrying the job's id, new status, progress, message,
\* has-result flag and error and call the subscribed callbacks with it; the notification
\* of update_task_progress(id, 50, "halfway") on a fresh job says status "processing",
\* progress 50, message "halfway".
C13_EveryTransitionNotifies ==
    [][(/\ lastCall'.op \in NotifyingOps
        /\ lastCall'.ret # "False"
        /\ lastCall'.id \in DOMAIN tasks
        /\ lastCall'.id \in DOMAIN subscribers)
          => LET id == lastCall'.id
                 note == lastCall'.arg.note
             IN /\ note.task_id = id
                /\ note.status = tasks'[id].status
                /\ note.progress = tasks'[id].progress
                /\ note.message = tasks'[id].message
                /\ ("has_result" \in DOMAIN note) = (tasks'[id].result # NoResult)
                /\ ("error" \in DOMAIN note) = (tasks'[id].error # NoError)
                /\ lastCall'.arg.seq \in DOMAIN deliveries'
                /\ lastCall'.arg.callback = subscribers[id][1]
                /\ received'[subscribers[id][1]] = lastCall'.arg.seq
                /\ (lastCall'.op = "update_task_progress" /\ tasks[id].status = QUEUED)
                      => /\ note.status = PROCESSING
                         /\ note.progress = 50
                         /\ note.message = "halfway"]_vars

\* C14: subscribe_to_task and unsubscribe_from_task with an id that is not in the registry
\* leave the job table and the subscriber table as they were and call no callback.
C14_UnknownIdSubscriptionIsNoOp ==
    [][(/\ lastCall'.op \in {"subscribe_to_task", "unsubscribe_from_task"}
        /\ lastCall'.id \notin DOMAIN tasks)
          => /\ tasks' = tasks
             /\ subscribers' = subscribers
             /\ received' = received]_vars

\* this step called a callback: a registry operation with its first one, or a resumed
\* notify_subscribers with its next one
CallbackCalled ==
    \/ lastCall'.op = "notify_subscribers" /\ lastCall'.ret = "awaiting"
    \/ /\ lastCall'.op \in NotifyingOps
       /\ lastCall'.ret # "False"
       /\ lastCall'.id \in DOMAIN subscribers
       /\ lastCall'.id \in DOMAIN tasks

\* C15: every callback is called with the notifications of a job in the order in which
\* the job's transitions occurred, also when a transition is applied while an earlier
\* notification's delivery is suspended inside an awaited callback.
C15_NotificationsInOrder ==
    [][CallbackCalled => lastCall'.arg.seq >= received[lastCall'.arg.callback]]_vars

\* the jobs that are terminal and whose age (seconds on the event-loop clock) exceeds hours
OldTerminal(hours) ==
    {id \in DOMAIN tasks :
        tasks[id].status \in Terminal /\ clock - tasks[id].created_at > hours * 3600}

\* C17: cleanup_old_tasks(maxAge) removes exactly the terminal jobs older than maxAge and
\* their subscriber lists, leaves every other job and subscriber list as it was, and a
\* second run right after it would remove nothing.
C17_SweepRemovesExactlyOldTerminal ==
    [][lastCall'.op = "cleanup_old_tasks"
          => LET old == OldTerminal(lastCall'.arg.max_age_hours)
             IN /\ DOMAIN tasks' = DOMAIN tasks \ old
                /\ \A id \in DOMAIN tasks' : tasks'[id] = tasks[id]
                /\ DOMAIN subscribers' = DOMAIN subscribers \ old
                /\ \A id \in DOMAIN subscribers' : subscribers'[id] = subscribers[id]
                /\ \A id \in DOMAIN tasks' :
                      ~(/\ tasks'[id].status \in Terminal
                        /\ clock' - tasks'[id].created_at
                              > lastCall'.arg.max_age_hours * 3600)]_vars

C17_Witness ==
    /\ lastCall.op = "cleanup_old_tasks"
    /\ lastCall.arg.max_age_hours = 1
    /\ lastCall.arg.removed # {}
    /\ lastCall.arg.unsubscribed # {}
    /\ clock = 2 * 3600

\* C16: update_task_progress, complete_task and fail_task with an id that is not in the
\* registry (never created, or removed) create no job, change no job and no subscriber
\* list, and build and deliver no notification.
C16_UnknownIdIsNoOp ==
    [][(/\ lastCall'.op \in {"update_task_progress", "complete_task", "fail_task"}
        /\ lastCall'.id \notin DOMAIN tasks)
          => /\ tasks' = tasks
             /\ subscribers' = subscribers
             /\ deliveries' = deliveries
             /\ received' = received]_vars

C16_Witness ==
    /\ lastCall.op = "complete_task"
    /\ lastCall.id \notin DOMAIN tasks
    /\ lastCall.id < nextTaskId
    /\ lastCall.id \in DOMAIN subscribers
    /\ \E cb \in Callbacks : received[cb] > 0

\* C18: whenever a Results row is deleted (by replace-previous or by the removal of its
\* image), every file named by a path of the row's resources list is gone from disk
\* afterwards.
C18_DeletedRowsLeaveNoFiles ==
    [][\A id \in DOMAIN results \ DOMAIN results' :
          ResourcePaths(results[id].result) \cap files' = {}]_vars

\* C19: for all parameter maps p, data maps d and resource lists r,
\* _unpack(_pack(p, d, r)) is p overlaid with d, d winning on shared keys; and _unpack of a
\* flat map without the params/data wrapper is that map.
C19_PackUnpackRoundTrip ==
    /\ lastCall.op = "_pack"
          => lastCall.arg.unpacked = Overlay(lastCall.arg.params, lastCall.arg.data)
    /\ lastCall.op = "_unpack"
          => lastCall.arg.unpacked = lastCall.arg.db_json

C19_Witness ==
    /\ lastCall.op = "_pack"
    /\ lastCall.arg.params = [k |-> 1, status |-> 1]
    /\ lastCall.arg.data = [status |-> 2]
    /\ lastCall.arg.resources.given
    /\ lastCall.arg.unpacked = [k |-> 1, status |-> 2]

\* the payload is an object with exactly the three keys, its resources a list of references
PayloadShape(result, keys) ==
    /\ DOMAIN result = keys
    /\ result.resources \in Seq({Resource(p) : p \in Paths})

\* C20: every payload the result service writes is an object with exactly the keys
\* params, data and resources, the resources being a list, and an empty one when the
\* writer was given none (mark_as_failed passes no resources).
C20_PayloadHasParamsDataResources ==
    [][\A id \in DOMAIN results' :
          /\ PayloadShape(results'[id].result, {"params", "data", "resources"})
          /\ (lastCall'.op = "mark_as_failed" /\ lastCall'.id = id
                 /\ results'[id].result.data = [status |-> "failed", error |-> lastCall'.arg.error])
                => results'[id].result.resources = <<>>]_vars

\* C20 as stated: the first key of every written payload is named parameters.
C20_PayloadHasParametersDataResources ==
    [][\A id \in DOMAIN results' :
          PayloadShape(results'[id].result, {"parameters", "data", "resources"})]_vars

C20_Witness ==
    /\ lastCall.op = "mark_as_failed"
    /\ lastCall.id \in DOMAIN results
    /\ results[lastCall.id].result.data = [status |-> "failed", error |-> lastCall.arg.error]
    /\ results[lastCall.id].result.params # <<>>
    /\ results[lastCall.id].result.resources = <<>>

\* C21: get_latest_result(image, method) returns None when the pair has no row, and
\* otherwise a row of that image and method such that no row of the pair was created
\* later and none created at the same time has a greater id.
C21_LatestOfThePair ==
    (lastCall.op = "get_latest_result" /\ lastCall.ret # "HTTP 500") =>
        LET pair == {id \in DOMAIN results :
                        /\ results[id].image_id = lastCall.arg.image_id
                        /\ results[id].name_method = lastCall.arg.method}
        IN /\ lastCall.ret = "None" <=> pair = {}
           /\ lastCall.ret = "row" =>
                 /\ lastCall.id \in pair
                 /\ \A o \in pair :
                       /\ results[o].created_at <= results[lastCall.id].created_at
                       /\ results[o].created_at = results[lastCall.id].created_at
                             => o <= lastCall.id

C21_Witness ==
    /\ lastCall.op = "get_latest_result"
    /\ lastCall.ret = "row"
    /\ \E o \in DOMAIN results :
          /\ o < lastCall.id
          /\ results[o].image_id = lastCall.arg.image_id
          /\ results[o].name_method = lastCall.arg.method
          /\ results[o].created_at = results[lastCall.id].created_at

\* C22: a retrieval of a job's result (download_export, get_task_result) hands out the
\* result only when the job is COMPLETED, and answers with an error whenever the job is
\* unknown or in any other status.
C22_ResultOnlyWhenCompleted ==
    lastCall.op \in {"download_export", "get_task_result"} =>
        LET completed == Known(lastCall.id) /\ tasks[lastCall.id].status = COMPLETED
        IN /\ lastCall.ret \in {"FileResponse", "result"} => completed
           /\ ~completed => lastCall.ret \in {"HTTP 400", "HTTP 500"}

\* C23: once a run of run_export_task has ended, whether packaging succeeded, packaging
\* raised or recording the outcome raised, the directory temp_export_<id> does not exist.
C23_TempDirRemovedAtEnd ==
    \A id \in DOMAIN exportPc : exportPc[id] = "done" => id \notin tempDirs

C23_Witness ==
    \E id \in DOMAIN exportPc :
       /\ exportPc[id] = "done"
       /\ tasks[id].status = FAILED
       /\ tasks[id].error = "record error"
       /\ id \notin tempDirs

\* the run of the job has ended in this step
ExportEnds(id) ==
    /\ id \in DOMAIN exportPc
    /\ exportPc[id] # "done"
    /\ exportPc'[id] = "done"

Computations == {"apply_kmeans_sync", "_create_zip_sync", "apply_gaussian_blur", "auto_crop_image"}

\* C25: every computation (clustering, blur filtering, archive packing) runs on a thread of
\* the worker pool, never on the event-loop thread.
C25_ComputationsRunInThePool ==
    (lastCall.op \in Computations /\ lastCall.arg.computed)
        => lastCall.arg.thread = "worker pool"

\* C26: every statement a background job executes goes to a session that a job opened,
\* never to the session of a request, and every statement goes to a session that is open.
C26_JobsUseTheirOwnSession ==
    [][lastCall'.op = "execute" =>
          LET s == lastCall'.arg.session
          IN /\ s \in DOMAIN sessions'
             /\ sessions'[s].open
             /\ lastCall'.arg.by = "job" => sessions'[s].opener = "job"]_vars

C26_Witness ==
    /\ lastCall.op = "execute"
    /\ lastCall.arg.by = "job"
    /\ sessions[lastCall.arg.session].opener = "job"
    /\ sessions[lastCall.arg.session].parent \in DOMAIN sessions
    /\ ~sessions[sessions[lastCall.arg.session].parent].open

\* C27: a step that runs on a worker-pool thread (such as _create_zip_sync) leaves the job table, the fields of every job and the subscriber lists as they are and
\* calls no subscriber callback; the registry changes only in steps of the event loop.
C27_WorkersLeaveTheRegistryAlone ==
    [][(lastCall'.op \in Computations /\ lastCall'.arg.thread = "worker pool")
         => /\ tasks' = tasks
            /\ subscribers' = subscribers
            /\ deliveries' = deliveries
            /\ received' = received]_vars

C27_Witness ==
    /\ lastCall.op = "_create_zip_sync"
    /\ lastCall.id \in DOMAIN subscribers
    /\ subscribers[lastCall.id] # <<>>
    /\ tasks[lastCall.id].status = PROCESSING
    /\ exportPc[lastCall.id] = "zipped"

\* C28: a create call (create_pending_result, save_structured_result) for (image, method)
\* leaves every row of another image or another method in the table and unchanged, and
\* with clear_previous false it leaves every row in the table and unchanged.
C28_ClearTouchesOnlyThePair ==
    [][(lastCall'.op \in CreateOps /\ lastCall'.ret = "row") =>
          \A id \in DOMAIN results :
             (\/ results[id].image_id # lastCall'.arg.image_id
              \/ results[id].name_method # lastCall'.arg.method
              \/ ~lastCall'.arg.clear_previous)
                => (id \in DOMAIN results' /\ results'[id] = results[id])]_vars

C28_Witness ==
    /\ lastCall.op \in CreateOps
    /\ lastCall.ret = "row"
    /\ lastCall.arg.clear_previous
    /\ \E id \in DOMAIN results :
          /\ id < lastCall.id
          /\ results[id].image_id = lastCall.arg.image_id
          /\ results[id].name_method # lastCall.arg.method

\* C29: a create call that fails with HTTP 500, at whichever of its steps, leaves the
\* table exactly as it was when the call began: the previous rows of the pair are still
\* there and no new row is.
C29_FailedCreateChangesNothing ==
    [][(lastCall'.op = "create_pending_result" /\ lastCall'.ret = "HTTP 500")
          => results' = lastCall'.arg.before]_vars

\* C30: a poll of the k-means result that finds the record reports the status of the
\* latest stored record: "processing" with has_result_image false while the row is
\* pending, and "completed" with the unpacked data, has_result_image being true exactly
\* when the result file exists.
C30_PollReportsStoredStatus ==
    (lastCall.op = "get_kmeans_result" /\ lastCall.ret = "200") =>
        LET row == results[get_latest_result(results, lastCall.id, "kmeans")]
            body == lastCall.arg
        IN /\ "status" \in DOMAIN body
           /\ body.status = "processing" <=> StoredStatus(row.result) = "processing"
           /\ body.status = "processing" => ~body.has_result_image
           /\ body.status = "completed" =>
                 /\ body.result = _unpack(row.result)
                 /\ body.has_result_image <=> ResultPath(lastCall.id) \in files

\* C32: in every reachable registry state each job's progress is an integer in 0..100,
\* whatever arguments update_task_progress was called with, and a COMPLETED job has
\* progress 100.
C32_ProgressWithinRange ==
    \A id \in DOMAIN tasks :
        /\ tasks[id].progress \in 0..100
        /\ tasks[id].status = COMPLETED => tasks[id].progress = 100

\* C39: in every reachable registry state a job has a stored result only if its status
\* is COMPLETED and a stored error only if its status is FAILED.
C39_ResultOnlyCompletedErrorOnlyFailed ==
    \A id \in DOMAIN tasks :
        /\ tasks[id].result # NoResult => tasks[id].status = COMPLETED
        /\ tasks[id].error # NoError => tasks[id].status = FAILED

\* C40: if one subscriber's callback raises while a notification is delivered, the
\* remaining subscribers of that job still receive the notification, the state transition
\* stays applied, and the transition call does not raise: the loop goes on to the next
\* callback of the list with the same notification, or ends by returning.
C40_RaisingCallbackStopsNothing ==
    [][(lastCall'.op = "notify_subscribers" /\ lastCall'.arg.after = "raised") =>
          LET n == lastCall'.arg.seq
              d == deliveries[n]
              list == Iterated(d)
          IN /\ tasks' = tasks
             /\ lastCall'.ret \in {"awaiting", "returned"}
             /\ d.idx <= Len(list) =>
                   /\ lastCall'.ret = "awaiting"
                   /\ lastCall'.arg.callback = list[d.idx]
                   /\ lastCall'.arg.note = d.note
                   /\ received'[list[d.idx]] >= n
             /\ d.idx > Len(list) => lastCall'.ret = "returned"]_vars

\* the first callback raised and the second subscriber of a completed job was still called
C40_Witness ==
    /\ lastCall.op = "notify_subscribers"
    /\ lastCall.ret = "awaiting"
    /\ lastCall.arg.after = "raised"
    /\ lastCall.arg.note.status = COMPLETED
    /\ lastCall.id \in DOMAIN tasks
    /\ tasks[lastCall.id].status = COMPLETED

\* C34: while notify_subscribers is suspended in one subscriber's awaited callback, a
\* concurrent unsubscribe_from_task of one subscriber or a remove_task of the job raises
\* no error and makes no other callback miss the notification: when the delivery of a
\* notification ends, every callback of the list it went through has been called with it.
C34_NoSubscriberMissesTheNotification ==
    [][\A n \in DOMAIN deliveries :
          n \notin DOMAIN deliveries' =>
             LET list == Iterated(deliveries[n])
             IN \A i \in DOMAIN list : received[list[i]] >= n]_vars

\* C33: if a second create_pending_result with clear_previous=True replaces the pending
\* row of a first job that is still running, the first job's later update_result_data or
\* mark_as_failed, addressed by the old row id, changes nothing: the id handed to the
\* second job was never handed out before, and a call addressed to an id whose row has
\* been replaced leaves every row as it is.
C33_ReplacedJobChangesNothing ==
    [][/\ (lastCall'.op = "create_pending_result" /\ lastCall'.ret = "row") =>
             /\ lastCall'.id \notin DOMAIN returned
             /\ lastCall'.id \notin DOMAIN results
       /\ (/\ lastCall'.op \in {"update_result_data", "mark_as_failed"}
           /\ lastCall'.id \in DOMAIN returned
           /\ lastCall'.id \notin DOMAIN results) =>
             results' = results]_vars

\* the first job reports on row 1 after the second request replaced it with row 2, which
\* is still processing under the second request's parameters
C33_Witness ==
    /\ lastCall.op \in {"update_result_data", "mark_as_failed"}
    /\ lastCall.id \in DOMAIN returned
    /\ lastCall.id \notin DOMAIN results
    /\ \E id \in DOMAIN results :
          /\ id > lastCall.id
          /\ results[id].result.params = returned[id].params
          /\ results[id].result.params # returned[lastCall.id].params
          /\ StoredStatus(results[id].result) = "processing"

\* C38: after an image or a dataset has been deleted (remove_image, delete_dataset,
\* remove_dataset), no Results row refers to a deleted image: every remaining Results
\* row's image_id is the id of an existing image.
C38_NoResultOfADeletedImage ==
    \A id \in DOMAIN results : results[id].image_id \in DOMAIN images

\* C35: two export jobs for the same dataset that run concurrently never share a working
\* directory or an output file: the archive file named in a COMPLETED job's result was
\* written by that job only and is not rewritten by another job afterwards.
C35_ArchiveWrittenByItsJobOnly ==
    \A id \in DOMAIN tasks \cap DOMAIN exporting :
        tasks[id].status = COMPLETED =>
            /\ ZipPath(exporting[id].dataset_id) \in {ZipPath(d) : d \in DOMAIN archives}
            /\ archives[exporting[id].dataset_id].by = <<id>>

\* C37: import_dataset removes its temp_import_<uuid> directory on every exit path: on
\* success, on an unreadable archive, on a missing manifest, and on a failure while the
\* uploaded file is being written.
C37_WorkingDirectoryRemovedOnEveryExit ==
    \A id \in DOMAIN imports : imports[id].pc = "done" => id \notin importDirs

\* C36: when an import fails the caller receives HTTP 500 with a detail that starts with
\* "Import failed", and the store holds no dataset and no image of the failed import.
C36_FailedImportLeavesTheStore ==
    [][(lastCall'.op = "import_dataset" /\ lastCall'.ret = "HTTP 500") =>
          /\ lastCall'.arg.detail = "Import failed"
          /\ imports'[lastCall'.id].dataset_id \notin datasets'
          /\ ImagesOf(images', imports'[lastCall'.id].dataset_id) = {}]_vars

\* the result rows of the images of a dataset
ResultsOfDataset(rs, im, dataset_id) ==
    {r \in DOMAIN rs : rs[r].image_id \in ImagesOf(im, dataset_id)}

\* C31: importing the archive an export produced creates a new dataset with a different id,
\* one image row per exported image and one result row per exported result, and every
\* image-type resource path in the imported results points to an existing file under the
\* new dataset's results directory.
C31_ImportRebuildsTheExportedDataset ==
    [][(lastCall'.op = "import_dataset" /\ lastCall'.ret = "dataset") =>
          LET upload == imports'[lastCall'.id].upload
              new == lastCall'.arg.dataset_id
              exported == exporting[upload.by]
          IN /\ new \in datasets'
             /\ new # upload.dataset_id
             /\ Cardinality(ImagesOf(images', new)) = Len(exported.images)
             /\ Cardinality(ResultsOfDataset(results', images', new))
                   = Cardinality(DOMAIN exported.results_map)
             /\ \A r \in ResultsOfDataset(results', images', new) :
                   \A k \in DOMAIN results'[r].result.resources :
                      IsImageResource(results'[r].result.resources[k]) =>
                         results'[r].result.resources[k].path
                            \in ResultsDirectory(files', new)]_vars

C31_Witness ==
    /\ lastCall.op = "import_dataset"
    /\ lastCall.ret = "dataset"
    /\ \E r \in ResultsOfDataset(results, images, lastCall.arg.dataset_id) :
          /\ results[r].result.resources # <<>>
          /\ IsImageResource(results[r].result.resources[1])

====
